---- MODULE Spec2Model ----
(***************************************************************************)
(* Model of ado_permissions_auditor.py (class AzureDevOpsAuditor): the     *)
(* rate-aware request executor (_make_request), the caches, the per-group  *)
(* lock (_get_aad_lock), the recursive resolver                            *)
(* (resolve_aad_group_members) and the audit driver                        *)
(* (process_project_permissions, run_audit).                               *)
(*                                                                         *)
(* The program is a single asyncio event loop: one task runs at a time and *)
(* gives up the loop only at an await that really suspends (a network      *)
(* round trip, a sleep, a busy lock or semaphore, gather).  The variable   *)
(* cur names the task that owns the loop; every coroutine call is a frame  *)
(* on that task's stack.                                                   *)
(***************************************************************************)
EXTENDS Integers, Sequences, FiniteSets, TLC

(***************************************************************************)
(* Bounds of the model.                                                    *)
(***************************************************************************)
\* non-success responses the server may give in a run against the small directory
MaxFaults == 4
\* non-success responses the server may give in a run against the other directories
FewFaults == 1
\* exceptions raised inside process_project_permissions in one run
MaxRaises == 1

(***************************************************************************)
(* Program constants.                                                      *)
(***************************************************************************)
max_retries == 3
backoff_base == 2
default_retry_after == 60
batch_size == 10

(***************************************************************************)
(* The remote directory: what the server answers.  A directory is a record *)
(* of the project list, the list the graph/groups endpoint returns, the    *)
(* membership edges and the display names.                                 *)
(***************************************************************************)
NoTask == "-"
MainTask == "main"

GroupDescriptors == {"vssgp.G1", "vssgp.G3", "aadgp.A", "aadgp.B", "aadgp.G2"}
UserDescriptors == {"aad.U1", "aad.U2"}

\* identities whose attributes are out of the ordinary: a service principal by its
\* principal name, a build identity, a service account and a device that are not of
\* kind "user", a user without any name, a user with a principal name only
SpecialIdentities ==
  "aad.SP" :> [subjectKind |-> "User", principalName |-> "App@MyOrg",
               displayName |-> "Deploy Bot", domain |-> "tenant"]
  @@ "aad.BLD" :> [subjectKind |-> "user", principalName |-> "agent7",
                   displayName |-> "Agent 7", domain |-> "Build"]
  @@ "svc.ACC" :> [subjectKind |-> "", principalName |-> "",
                   displayName |-> "Backup", domain |-> "corp.ServiceAccount"]
  @@ "unk.DEV" :> [subjectKind |-> "device", principalName |-> "",
                   displayName |-> "Kiosk", domain |-> "tenant"]
  @@ "aad.X" :> [subjectKind |-> "user", principalName |-> "", displayName |-> "",
                 domain |-> "tenant"]
  @@ "aad.PN" :> [subjectKind |-> "user", principalName |-> "pn@corp",
                  displayName |-> "", domain |-> "tenant"]
SpecialDescriptors == DOMAIN SpecialIdentities
Descriptors == GroupDescriptors \cup UserDescriptors \cup SpecialDescriptors

ShortNames ==
  "vssgp.G1" :> "G1" @@ "vssgp.G3" :> "G3" @@ "aadgp.A" :> "A" @@ "aadgp.B" :> "B"
  @@ "aadgp.G2" :> "G2" @@ "aad.U1" :> "U1" @@ "aad.U2" :> "U2"

\* display names that are the descriptor strings themselves
DescriptorNames == [d \in Descriptors |-> d]

\* 2 projects; G1 has user U1 and directory group G2; G2 has user U2
DirEndToEnd ==
  [projects |-> <<"P1", "P2">>, groups |-> <<"vssgp.G1", "vssgp.G3">>,
   members |-> ("vssgp.G1" :> <<"aad.U1", "aadgp.G2">> @@ "vssgp.G3" :> <<>>
                @@ "aadgp.G2" :> <<"aad.U2">>),
   names |-> ShortNames, faults |-> 0, max_concurrent |-> 2, raises |-> 0]

\* G1 -> A -> B -> U2, and U1 directly in A
DirNested ==
  [projects |-> <<"P1">>, groups |-> <<"vssgp.G1">>,
   members |-> ("vssgp.G1" :> <<"aadgp.A">> @@ "aadgp.A" :> <<"aad.U1", "aadgp.B">>
                @@ "aadgp.B" :> <<"aad.U2">>),
   names |-> ShortNames, faults |-> FewFaults, max_concurrent |-> 2, raises |-> 0]

\* two projects whose groups both hold A (A -> B -> U2), one executor slot
DirShared ==
  [projects |-> <<"P1", "P2">>, groups |-> <<"vssgp.G1", "vssgp.G3">>,
   members |-> ("vssgp.G1" :> <<"aadgp.A">> @@ "vssgp.G3" :> <<"aadgp.A">>
                @@ "aadgp.A" :> <<"aad.U1", "aadgp.B">> @@ "aadgp.B" :> <<"aad.U2">>),
   names |-> ShortNames, faults |-> FewFaults, max_concurrent |-> 1, raises |-> 0]

\* A -> B -> A
DirCycle ==
  [projects |-> <<"P1">>, groups |-> <<"vssgp.G1">>,
   members |-> ("vssgp.G1" :> <<"aadgp.A">> @@ "aadgp.A" :> <<"aadgp.B", "aad.U1">>
                @@ "aadgp.B" :> <<"aadgp.A", "aad.U2">>),
   names |-> ShortNames, faults |-> 0, max_concurrent |-> 2, raises |-> 0]

\* A -> A
DirSelf ==
  [projects |-> <<"P1">>, groups |-> <<"vssgp.G1">>,
   members |-> ("vssgp.G1" :> <<"aadgp.A">> @@ "aadgp.A" :> <<"aadgp.A", "aad.U1">>),
   names |-> ShortNames, faults |-> 0, max_concurrent |-> 2, raises |-> 0]

\* A -> B -> A where every display name equals the descriptor
DirCycleNamed ==
  [projects |-> <<"P1", "P2">>, groups |-> <<"vssgp.G1">>,
   members |-> ("vssgp.G1" :> <<"aadgp.A">> @@ "aadgp.A" :> <<"aadgp.B", "aad.U1">>
                @@ "aadgp.B" :> <<"aadgp.A", "aad.U2">>),
   names |-> DescriptorNames, faults |-> 0, max_concurrent |-> 2, raises |-> 0]

\* a small directory behind an unreliable server
DirFlaky ==
  [projects |-> <<"P1">>, groups |-> <<"vssgp.G1">>,
   members |-> ("vssgp.G1" :> <<"aadgp.G2">> @@ "aadgp.G2" :> <<"aad.U1">>),
   names |-> ShortNames, faults |-> MaxFaults, max_concurrent |-> 1, raises |-> 0]

\* three projects of one batch that all hold G1, whose only member is U1
DirThree ==
  [projects |-> <<"P1", "P2", "P3">>, groups |-> <<"vssgp.G1">>,
   members |-> ("vssgp.G1" :> <<"aad.U1">>),
   names |-> ShortNames, faults |-> 0, max_concurrent |-> 3, raises |-> 0]

\* B is reached twice: directly from G1, then through A
DirDiamond ==
  [projects |-> <<"P1">>, groups |-> <<"vssgp.G1">>,
   members |-> ("vssgp.G1" :> <<"aadgp.B", "aadgp.A">> @@ "aadgp.A" :> <<"aadgp.B">>
                @@ "aadgp.B" :> <<"aad.U2">>),
   names |-> ShortNames, faults |-> 0, max_concurrent |-> 2, raises |-> 0]

\* G1 holds the identities with special attributes directly, and A holds two of them
DirKinds ==
  [projects |-> <<"P1">>, groups |-> <<"vssgp.G1">>,
   members |-> ("vssgp.G1" :> <<"aad.SP", "aad.X", "aad.BLD", "svc.ACC", "unk.DEV",
                               "aad.PN", "aadgp.A">>
                @@ "aadgp.A" :> <<"aad.X", "aad.PN", "aad.U1">>),
   names |-> ShortNames, faults |-> 0, max_concurrent |-> 2, raises |-> 0]

\* 2 projects whose output sink and membership responses may fail: G1 has users U1
\* and U2, G3 has directory group A, A has users U1 and U2
DirBrokenSink ==
  [projects |-> <<"P1", "P2">>, groups |-> <<"vssgp.G1", "vssgp.G3">>,
   members |-> ("vssgp.G1" :> <<"aad.U1", "aad.U2">> @@ "vssgp.G3" :> <<"aadgp.A">>
                @@ "aadgp.A" :> <<"aad.U1", "aad.U2">>),
   names |-> ShortNames, faults |-> 0, max_concurrent |-> 1, raises |-> MaxRaises]

\* an organization without projects: the enumeration returns the empty list
DirEmpty ==
  [projects |-> <<>>, groups |-> <<"vssgp.G1">>,
   members |-> ("vssgp.G1" :> <<"aad.U1">>),
   names |-> ShortNames, faults |-> 0, max_concurrent |-> 2, raises |-> 0]

\* two projects and two directory groups A and G2 that both hold B: a project whose
\* identity lookup of A failed goes on to G2 while the other project is inside A
DirLadder ==
  [projects |-> <<"P1", "P2">>, groups |-> <<"vssgp.G1">>,
   members |-> ("vssgp.G1" :> <<"aadgp.A", "aadgp.G2">> @@ "aadgp.A" :> <<"aadgp.B">>
                @@ "aadgp.G2" :> <<"aadgp.B">> @@ "aadgp.B" :> <<>>),
   names |-> ShortNames, faults |-> 1, max_concurrent |-> 2, raises |-> 0]

\* eleven projects without platform groups: a full batch of ten and a second batch
DirBatches ==
  [projects |-> <<"P1", "P2", "P3", "P4", "P5", "P6", "P7", "P8", "P9", "P10", "P11">>,
   groups |-> <<>>, members |-> <<>>,
   names |-> ShortNames, faults |-> 0, max_concurrent |-> 1, raises |-> 0]

Directories ==
  <<DirEndToEnd, DirNested, DirShared, DirCycle, DirSelf, DirCycleNamed, DirFlaky,
    DirThree, DirDiamond, DirKinds, DirBrokenSink, DirEmpty, DirLadder,
    DirBatches>>

VARIABLES
  dir,                          \* the directory and constructor arguments of this run
  faultsLeft,                   \* non-success responses the server may still give
  raisesLeft,                   \* failures of the output sink and malformed bodies still to come
  cur,                          \* the task that owns the event loop, or NoTask
  stack,                        \* per task: its coroutine frames, innermost last
  ret,                          \* per task: the value its last finished call returned
  semaphore,                    \* free slots of self.semaphore
  aad_group_locks,              \* descriptor -> locked?, for the locks created so far
  aad_group_members_cache,      \* descriptor -> leaf members
  identity_cache,               \* descriptor -> identity
  vsts_group_membership_cache,  \* <<project, descriptor>> -> memberships
  project_cache,                \* project id -> project
  project_groups_cache,         \* project id -> groups
  cache_stats,
  stats,
  errors,                       \* the error ledger
  csv_rows,                     \* rows handed to the csv writer
  flushed,                      \* number of rows known to be flushed
  fetches,                      \* history: membership fetches started by the resolver
  requests                      \* history: per url, the calls and attempts the server saw

vars ==
  <<dir, faultsLeft, raisesLeft, cur, stack, ret, semaphore, aad_group_locks,
    aad_group_members_cache, identity_cache, vsts_group_membership_cache,
    project_cache, project_groups_cache, cache_stats, stats, errors, csv_rows,
    flushed, fetches, requests>>

env_vars == <<dir, raisesLeft>>
cache_vars ==
  <<aad_group_members_cache, identity_cache, vsts_group_membership_cache,
    project_cache, project_groups_cache>>
out_vars == <<csv_rows, flushed>>

(***************************************************************************)
(* Identity attributes as the server reports them.                         *)
(***************************************************************************)
DisplayNameOf(d) ==
  IF d \in SpecialDescriptors THEN SpecialIdentities[d].displayName ELSE dir.names[d]
PrincipalNameOf(d) ==
  IF d \in SpecialDescriptors THEN SpecialIdentities[d].principalName
  ELSE IF d \in UserDescriptors THEN dir.names[d] ELSE ""
SubjectKindOf(d) ==
  IF d \in SpecialDescriptors THEN SpecialIdentities[d].subjectKind
  ELSE IF d \in GroupDescriptors THEN "group" ELSE "user"
DomainOf(d) == IF d \in SpecialDescriptors THEN SpecialIdentities[d].domain ELSE ""
\* the identity dict of descriptor d
MemberDetails(d) ==
  [subjectKind |-> SubjectKindOf(d), domain |-> DomainOf(d),
   principalName |-> PrincipalNameOf(d), displayName |-> DisplayNameOf(d)]
MembersOf(g) == IF g \in DOMAIN dir.members THEN dir.members[g] ELSE <<>>

(***************************************************************************)
(* Python values: None, and a present value.                               *)
(***************************************************************************)
None == [none |-> TRUE, val |-> <<>>]
Some(v) == [none |-> FALSE, val |-> v]
\* the resolver's return value, a list of (member, chain_str) tuples
Pairs(v) == [none |-> FALSE, pairs |-> v]
\* the empty dict of a cache
EmptyMap == [k \in {} |-> k]
\* cache[k] = v
Put(cache, k, v) == (k :> v) @@ cache

Range(s) == {s[n] : n \in 1..Len(s)}

RECURSIVE Join(_)
\* " > ".join(names)
Join(names) ==
  IF names = <<>> THEN ""
  ELSE IF Len(names) = 1 THEN names[1]
  ELSE names[1] \o " > " \o Join(Tail(names))

RECURSIVE Pow(_, _)
Pow(b, n) == IF n = 0 THEN 1 ELSE b * Pow(b, n - 1)

(***************************************************************************)
(* Frames and the call stack.                                              *)
(***************************************************************************)
Depth(t) == Len(stack[t])
Top(t) == stack[t][Depth(t)]
At(t, fn, pc) == Depth(t) > 0 /\ Top(t).fn = fn /\ Top(t).pc = pc
\* the running task takes its next step
Running(t, fn, pc) == cur = t /\ At(t, fn, pc)
\* the tasks gather has created that have not run yet, in the order of the batch
Unstarted ==
  IF stack[MainTask] = <<>> \/ stack[MainTask][1].pc # "gather" THEN <<>>
  ELSE SelectSeq(stack[MainTask][1].projects,
                 LAMBDA p : At(p, "process_project_permissions", "begin"))
\* a suspended task is resumed by the event loop; the tasks of a new batch run
\* first, in the order in which gather created them (call_soon is first-in first-out)
Resumed(t, fn, pc) ==
  /\ cur = NoTask
  /\ At(t, fn, pc)
  /\ Unstarted # <<>> => t = Head(Unstarted)

SetTop(t, f) == [stack EXCEPT ![t] = [@ EXCEPT ![Len(@)] = f]]
\* the top frame moves to f and calls a coroutine with frame g
Call(t, f, g) == [stack EXCEPT ![t] = Append([@ EXCEPT ![Len(@)] = f], g)]
Pop(t) == [stack EXCEPT ![t] = SubSeq(@, 1, Len(@) - 1)]
\* who owns the loop once t's top frame returns: nobody when the task ends
AfterReturn(t) == IF Depth(t) = 1 THEN NoTask ELSE t

RequestFrame(kind, key, context) ==
  [fn |-> "_make_request", pc |-> "begin", kind |-> kind, key |-> key,
   context |-> context, retry_count |-> 0, waits |-> <<>>, attempts |-> 0]

\* url = f"{base}/{url}"
Url(f) == <<f.kind, f.key>>

\* the JSON body of a successful response
Body(f) ==
  CASE f.kind = "projects" -> dir.projects
    [] f.kind = "groups" -> dir.groups
    [] f.kind = "memberships" -> MembersOf(f.key)
    [] OTHER -> <<f.key>>

\* the tasks of a run: the main coroutine and one task per project (the tasks of
\* P1..P3 are there in every run, idle when the directory does not list the project)
ProjectIds == {"P1", "P2", "P3"} \cup Range(dir.projects)
Tasks == {MainTask} \cup ProjectIds

Init ==
  /\ dir \in Range(Directories)
  /\ faultsLeft = dir.faults
  /\ raisesLeft = dir.raises
  /\ cur = MainTask
  /\ stack = [t \in Tasks |->
               IF t = MainTask THEN <<[fn |-> "run_audit", pc |-> "begin"]>> ELSE <<>>]
  /\ ret = [t \in Tasks |-> None]
  /\ semaphore = dir.max_concurrent
  /\ aad_group_locks = EmptyMap
  /\ aad_group_members_cache = EmptyMap
  /\ identity_cache = EmptyMap
  /\ vsts_group_membership_cache = EmptyMap
  /\ project_cache = EmptyMap
  /\ project_groups_cache = EmptyMap
  /\ cache_stats = [aad_group_hits |-> 0, aad_group_misses |-> 0, user_hits |-> 0,
                    user_misses |-> 0, group_membership_hits |-> 0,
                    group_membership_misses |-> 0]
  /\ stats = [projects_processed |-> 0, vsts_groups_processed |-> 0,
              aad_groups_resolved |-> 0, total_permissions |-> 0, api_calls |-> 0,
              api_errors |-> 0, rate_limit_hits |-> 0]
  /\ errors = <<>>
  /\ csv_rows = <<>>
  /\ flushed = 0
  /\ fetches = [g \in GroupDescriptors |-> 0]
  /\ requests = EmptyMap

(***************************************************************************)
(* _log_error and the counters.                                            *)
(***************************************************************************)
ErrorRecord(error_type, f, status) ==
  [error_type |-> error_type, url |-> Url(f), context |-> f.context,
   status |-> status]

\* self.stats["api_errors"] += 1 ; self._log_error(...)
LogApiError(error_type, f, status) ==
  /\ stats' = [stats EXCEPT !.api_errors = @ + 1]
  /\ errors' = Append(errors, ErrorRecord(error_type, f, status))

\* self._log_error(error_type, "", context, 0, str(e)) of the processing handlers
ProcessingError(error_type, context) ==
  [error_type |-> error_type, url |-> <<>>, context |-> context, status |-> 0]

\* one of the failures the run may still meet happens now
Raise == raisesLeft > 0 /\ raisesLeft' = raisesLeft - 1

\* a body whose "value" is null (a marker that is no list of descriptors)
NullValue == <<"null">>

(***************************************************************************)
(* _make_request                                                           *)
(***************************************************************************)
\* the statuses the server answers with
Statuses == {200, 400, 401, 403, 404, 429, 500}

\* the branch of the if-chain on response.status that a status takes, in code order
StatusClass(status) ==
  IF status = 429 THEN "rate_limited"
  ELSE IF status = 404 THEN "not_found"
  ELSE IF status \in {401, 403} THEN "auth"
  ELSE IF 400 <= status /\ status < 500 THEN "client"
  ELSE IF status >= 500 THEN "server"
  ELSE "success"

StatusAuth == {status \in Statuses : StatusClass(status) = "auth"}
StatusClient == {status \in Statuses : StatusClass(status) = "client"}
StatusServer == {status \in Statuses : StatusClass(status) = "server"}

\* the Retry-After header of a 429 response: absent, delay seconds, or an HTTP date
RetryAfterHeaders == {None, Some("5"), Some("Fri, 31 Dec 1999 23:59:59 GMT")}
\* int(text): the number a decimal string denotes, None where int raises ValueError
IntOf(text) == IF text = "5" THEN Some(5) ELSE None
\* variant: the header is ignored, the default is always waited
RetryAfter_IgnoresHeader(header) == Some(default_retry_after)

\* retry_after = int(response.headers.get("Retry-After", 60))
RetryAfter(header) == IF header.none THEN Some(default_retry_after) ELSE IntOf(header.val)

req_frame_unchanged ==
  UNCHANGED <<env_vars, cache_vars, out_vars, aad_group_locks, cache_stats, fetches, requests>>

\* async with self.semaphore: a slot is free, the caller goes on without yielding
Req_Acquire(t) ==
  /\ Running(t, "_make_request", "begin")
  /\ semaphore > 0
  /\ semaphore' = semaphore - 1
  /\ stack' = SetTop(t, [Top(t) EXCEPT !.pc = "attempt"])
  /\ UNCHANGED <<cur, ret, faultsLeft, stats, errors>>
  /\ req_frame_unchanged

\* async with self.semaphore: no slot is free, the caller is suspended
Req_Blocked(t) ==
  /\ Running(t, "_make_request", "begin")
  /\ semaphore = 0
  /\ stack' = SetTop(t, [Top(t) EXCEPT !.pc = "wait_semaphore"])
  /\ cur' = NoTask
  /\ UNCHANGED <<semaphore, ret, faultsLeft, stats, errors>>
  /\ req_frame_unchanged

\* variant: a suspended caller is woken although no slot is free
Req_Admit_Unguarded(t) ==
  /\ Resumed(t, "_make_request", "wait_semaphore")
  /\ semaphore' = semaphore - 1
  /\ stack' = SetTop(t, [Top(t) EXCEPT !.pc = "attempt"])
  /\ cur' = t
  /\ UNCHANGED <<ret, faultsLeft, stats, errors>>
  /\ req_frame_unchanged

\* a suspended caller is admitted once a slot has been released
Req_Admit(t) ==
  /\ Resumed(t, "_make_request", "wait_semaphore")
  /\ semaphore > 0
  /\ semaphore' = semaphore - 1
  /\ stack' = SetTop(t, [Top(t) EXCEPT !.pc = "attempt"])
  /\ cur' = t
  /\ UNCHANGED <<ret, faultsLeft, stats, errors>>
  /\ req_frame_unchanged

\* variant: the value is returned without leaving the async with block
ReqReturn_KeepsSlot(t, value) ==
  /\ stack' = Pop(t)
  /\ ret' = [ret EXCEPT ![t] = value]
  /\ semaphore' = semaphore
  /\ cur' = t

\* leaving the async with block: release the slot and hand the value to the caller
ReqReturn(t, value) ==
  /\ stack' = Pop(t)
  /\ ret' = [ret EXCEPT ![t] = value]
  /\ semaphore' = semaphore + 1
  /\ cur' = t

\* the server receives one more request for url; first tells the first attempt of a call
Received(log, url, first) ==
  LET before == IF url \in DOMAIN log THEN log[url] ELSE [calls |-> 0, attempts |-> 0]
  IN  Put(log, url, [calls |-> before.calls + (IF first THEN 1 ELSE 0),
                     attempts |-> before.attempts + 1])

\* variant: only the first attempt of a call is counted
Req_Attempt_CountsFirstOnly(t) ==
  /\ Running(t, "_make_request", "attempt")
  /\ Top(t).retry_count <= max_retries
  /\ stats' = [stats EXCEPT !.api_calls = @ + (IF Top(t).retry_count = 0 THEN 1 ELSE 0)]
  /\ stack' = SetTop(t, [Top(t) EXCEPT !.pc = "inflight", !.attempts = @ + 1])
  /\ requests' = Received(requests, Url(Top(t)), Top(t).attempts = 0)
  /\ cur' = NoTask
  /\ UNCHANGED <<semaphore, ret, faultsLeft, errors>>
  /\ UNCHANGED <<env_vars, cache_vars, out_vars, aad_group_locks, cache_stats, fetches>>

\* while retry_count <= max_retries: api_calls += 1; session.request(...)
Req_Attempt(t) ==
  /\ Running(t, "_make_request", "attempt")
  /\ Top(t).retry_count <= max_retries
  /\ stats' = [stats EXCEPT !.api_calls = @ + 1]
  /\ stack' = SetTop(t, [Top(t) EXCEPT !.pc = "inflight", !.attempts = @ + 1])
  /\ requests' = Received(requests, Url(Top(t)), Top(t).attempts = 0)
  /\ cur' = NoTask
  /\ UNCHANGED <<semaphore, ret, faultsLeft, errors>>
  /\ UNCHANGED <<env_vars, cache_vars, out_vars, aad_group_locks, cache_stats, fetches>>

\* the while condition fails: the return None after the loop
Req_LoopExit(t) ==
  /\ Running(t, "_make_request", "attempt")
  /\ Top(t).retry_count > max_retries
  /\ ReqReturn(t, None)
  /\ UNCHANGED <<faultsLeft, stats, errors>>
  /\ req_frame_unchanged

\* the server's answer arrives; every answer but a good 200 uses up the fault budget
Answered(t) == Resumed(t, "_make_request", "inflight")
Fault == faultsLeft > 0 /\ faultsLeft' = faultsLeft - 1

\* status 429: count it, sleep Retry-After seconds.  A header that int() cannot
\* parse raises ValueError inside the try: the except Exception branch records it.
Resp_RateLimited(t) ==
  /\ Answered(t)
  /\ Fault
  /\ \E header \in RetryAfterHeaders :
       IF RetryAfter(header).none
       THEN /\ stats' = [stats EXCEPT !.rate_limit_hits = @ + 1, !.api_errors = @ + 1]
            /\ errors' = Append(errors, ErrorRecord("unexpected_error", Top(t), 0))
            /\ ReqReturn(t, None)
       ELSE /\ stack' = SetTop(t, [Top(t) EXCEPT
                          !.pc = "sleep",
                          !.waits = Append(@, [cause |-> "429",
                                               wait |-> RetryAfter(header).val,
                                               header |-> header])])
            /\ stats' = [stats EXCEPT !.rate_limit_hits = @ + 1]
            /\ UNCHANGED <<cur, semaphore, ret, errors>>
  /\ req_frame_unchanged

\* variant: a 404 is recorded like the other client errors
Resp_NotFound_Recorded(t) ==
  /\ Answered(t)
  /\ Fault
  /\ LogApiError("client_error", Top(t), 404)
  /\ ReqReturn(t, None)
  /\ req_frame_unchanged

\* status 404: return None, nothing recorded
Resp_NotFound(t) ==
  /\ Answered(t)
  /\ Fault
  /\ ReqReturn(t, None)
  /\ UNCHANGED <<stats, errors>>
  /\ req_frame_unchanged

\* variant: a 401 or 403 returns None without leaving the async with block
Resp_Auth_KeepsSlot(t) ==
  /\ Answered(t)
  /\ Fault
  /\ \E status \in StatusAuth : LogApiError("auth_error", Top(t), status)
  /\ ReqReturn_KeepsSlot(t, None)
  /\ req_frame_unchanged

\* status 401 or 403
Resp_Auth(t) ==
  /\ Answered(t)
  /\ Fault
  /\ \E status \in StatusAuth : LogApiError("auth_error", Top(t), status)
  /\ ReqReturn(t, None)
  /\ req_frame_unchanged

\* variant: a client error is waited out and retried like a server error
Resp_ClientError_Retried(t) ==
  /\ Answered(t)
  /\ Fault
  /\ stack' = SetTop(t, [Top(t) EXCEPT
                !.pc = "sleep",
                !.waits = Append(@, [cause |-> "failure",
                                     wait |-> Pow(backoff_base, Top(t).retry_count)])])
  /\ UNCHANGED <<cur, semaphore, ret, stats, errors>>
  /\ req_frame_unchanged

\* any other 4xx
Resp_ClientError(t) ==
  /\ Answered(t)
  /\ Fault
  /\ \E status \in StatusClient : LogApiError("client_error", Top(t), status)
  /\ ReqReturn(t, None)
  /\ req_frame_unchanged

\* variant: retries while retry_count <= max_retries
FailedAttempt_OffByOne(t, error_type, status) ==
  IF Top(t).retry_count <= max_retries
  THEN /\ stack' = SetTop(t, [Top(t) EXCEPT
                     !.pc = "sleep",
                     !.waits = Append(@, [cause |-> "failure",
                                          wait |-> Pow(backoff_base, Top(t).retry_count)])])
       /\ UNCHANGED <<cur, semaphore, ret, stats, errors>>
  ELSE /\ LogApiError(error_type, Top(t), status)
       /\ ReqReturn(t, None)

\* the failures among the waits of a call
FailureWaits(waits) == Cardinality({k \in 1..Len(waits) : waits[k].cause = "failure"})

\* variant: the backoff exponent counts the earlier failures only, not the 429 retries
FailedAttempt_OwnCounter(t, error_type, status) ==
  IF Top(t).retry_count < max_retries
  THEN /\ stack' = SetTop(t, [Top(t) EXCEPT
                     !.pc = "sleep",
                     !.waits = Append(@, [cause |-> "failure",
                                          wait |-> Pow(backoff_base,
                                                       FailureWaits(Top(t).waits))])])
       /\ UNCHANGED <<cur, semaphore, ret, stats, errors>>
  ELSE /\ LogApiError(error_type, Top(t), status)
       /\ ReqReturn(t, None)

\* what a failed attempt does: back off and retry while retry_count < max_retries,
\* otherwise record the error and return None
FailedAttempt(t, error_type, status) ==
  IF Top(t).retry_count < max_retries
  THEN /\ stack' = SetTop(t, [Top(t) EXCEPT
                     !.pc = "sleep",
                     !.waits = Append(@, [cause |-> "failure",
                                          wait |-> Pow(backoff_base, Top(t).retry_count)])])
       /\ UNCHANGED <<cur, semaphore, ret, stats, errors>>
  ELSE /\ LogApiError(error_type, Top(t), status)
       /\ ReqReturn(t, None)

\* status >= 500
Resp_ServerError(t) ==
  /\ Answered(t)
  /\ Fault
  /\ \E status \in StatusServer : FailedAttempt(t, "server_error", status)
  /\ req_frame_unchanged

\* except TimeoutError
Resp_Timeout(t) ==
  /\ Answered(t)
  /\ Fault
  /\ FailedAttempt(t, "timeout", 0)
  /\ req_frame_unchanged

\* except aiohttp.ClientError
Resp_ClientException(t) ==
  /\ Answered(t)
  /\ Fault
  /\ FailedAttempt(t, "client_exception", 0)
  /\ req_frame_unchanged

\* except Exception
Resp_Unexpected(t) ==
  /\ Answered(t)
  /\ Fault
  /\ LogApiError("unexpected_error", Top(t), 0)
  /\ ReqReturn(t, None)
  /\ req_frame_unchanged

\* a success status whose body does not parse
Resp_JsonError(t) ==
  /\ Answered(t)
  /\ Fault
  /\ LogApiError("json_error", Top(t), 200)
  /\ ReqReturn(t, None)
  /\ req_frame_unchanged

\* a success status: return await response.json()
Resp_Success(t) ==
  /\ Answered(t)
  /\ ReqReturn(t, Some(Body(Top(t))))
  /\ UNCHANGED <<faultsLeft, stats, errors>>
  /\ req_frame_unchanged

\* asyncio.sleep is over: retry_count += 1; continue
Req_SleepDone(t) ==
  /\ Resumed(t, "_make_request", "sleep")
  /\ stack' = SetTop(t, [Top(t) EXCEPT !.pc = "attempt", !.retry_count = @ + 1])
  /\ cur' = t
  /\ UNCHANGED <<semaphore, ret, faultsLeft, stats, errors>>
  /\ req_frame_unchanged

MakeRequest(t) ==
  \/ Req_Acquire(t) \/ Req_Blocked(t) \/ Req_Admit(t)
  \/ Req_Attempt(t) \/ Req_LoopExit(t)
  \/ Resp_RateLimited(t) \/ Resp_NotFound(t) \/ Resp_Auth(t) \/ Resp_ClientError(t)
  \/ Resp_ServerError(t) \/ Resp_Timeout(t) \/ Resp_ClientException(t)
  \/ Resp_Unexpected(t) \/ Resp_JsonError(t) \/ Resp_Success(t)
  \/ Req_SleepDone(t)

(***************************************************************************)
(* Calls and returns of the coroutines other than _make_request.           *)
(***************************************************************************)
Return(t, value) ==
  /\ stack' = Pop(t)
  /\ ret' = [ret EXCEPT ![t] = value]
  /\ cur' = AfterReturn(t)

\* the frame moves to pc and awaits self._make_request(...)
AwaitRequest(t, pc, kind, key, context) ==
  stack' = Call(t, [Top(t) EXCEPT !.pc = pc], RequestFrame(kind, key, context))

(***************************************************************************)
(* get_all_projects                                                        *)
(***************************************************************************)
GetAllProjects_Begin(t) ==
  /\ Running(t, "get_all_projects", "begin")
  /\ AwaitRequest(t, "response", "projects", "", "get_all_projects")
  /\ UNCHANGED <<env_vars, faultsLeft, cur, ret, semaphore, aad_group_locks, cache_vars,
                 cache_stats, stats, errors, out_vars, fetches, requests>>

GetAllProjects_Response(t) ==
  /\ Running(t, "get_all_projects", "response")
  /\ IF ret[t].none
     THEN Return(t, Some(<<>>)) /\ UNCHANGED project_cache
     ELSE /\ project_cache' =
               [p \in DOMAIN project_cache \cup Range(ret[t].val) |->
                  IF p \in Range(ret[t].val) THEN [id |-> p, name |-> p]
                  ELSE project_cache[p]]
          /\ Return(t, Some(ret[t].val))
  /\ UNCHANGED <<env_vars, faultsLeft, semaphore, aad_group_locks,
                 aad_group_members_cache, identity_cache, vsts_group_membership_cache,
                 project_groups_cache, cache_stats, stats, errors, out_vars, fetches, requests>>

(***************************************************************************)
(* get_project_groups                                                      *)
(***************************************************************************)
GetProjectGroups_Begin(t) ==
  /\ Running(t, "get_project_groups", "begin")
  /\ IF Top(t).project_id \in DOMAIN project_groups_cache
     THEN /\ cache_stats' = [cache_stats EXCEPT !.group_membership_hits = @ + 1]
          /\ Return(t, Some(project_groups_cache[Top(t).project_id]))
     ELSE /\ cache_stats' = [cache_stats EXCEPT !.group_membership_misses = @ + 1]
          /\ AwaitRequest(t, "response", "groups", "", "get_groups")
          /\ UNCHANGED <<cur, ret>>
  /\ UNCHANGED <<env_vars, faultsLeft, semaphore, aad_group_locks, cache_vars, stats,
                 errors, out_vars, fetches, requests>>

GetProjectGroups_Response(t) ==
  /\ Running(t, "get_project_groups", "response")
  /\ IF ret[t].none
     THEN Return(t, Some(<<>>)) /\ UNCHANGED project_groups_cache
     ELSE /\ project_groups_cache' =
               Put(project_groups_cache, Top(t).project_id, ret[t].val)
          /\ Return(t, Some(ret[t].val))
  /\ UNCHANGED <<env_vars, faultsLeft, semaphore, aad_group_locks,
                 aad_group_members_cache, identity_cache, vsts_group_membership_cache,
                 project_cache, cache_stats, stats, errors, out_vars, fetches, requests>>

(***************************************************************************)
(* get_group_members                                                       *)
(***************************************************************************)
\* cache_key = f"{project_name}:{group_descriptor}"
MembershipKey(f) == <<f.project_name, f.group_descriptor>>

GetGroupMembers_Begin(t) ==
  /\ Running(t, "get_group_members", "begin")
  /\ IF MembershipKey(Top(t)) \in DOMAIN vsts_group_membership_cache
     THEN /\ cache_stats' = [cache_stats EXCEPT !.group_membership_hits = @ + 1]
          /\ Return(t, Some(vsts_group_membership_cache[MembershipKey(Top(t))]))
     ELSE /\ cache_stats' = [cache_stats EXCEPT !.group_membership_misses = @ + 1]
          /\ AwaitRequest(t, "response", "memberships", Top(t).group_descriptor,
                          "get_members")
          /\ UNCHANGED <<cur, ret>>
  /\ UNCHANGED <<env_vars, faultsLeft, semaphore, aad_group_locks, cache_vars, stats,
                 errors, out_vars, fetches, requests>>

\* a failed fetch is cached as the empty list
GetGroupMembers_Response(t) ==
  /\ Running(t, "get_group_members", "response")
  /\ LET members == IF ret[t].none THEN <<>> ELSE ret[t].val IN
       /\ vsts_group_membership_cache' =
            Put(vsts_group_membership_cache, MembershipKey(Top(t)), members)
       /\ Return(t, Some(members))
  /\ UNCHANGED <<env_vars, faultsLeft, semaphore, aad_group_locks,
                 aad_group_members_cache, identity_cache, project_cache,
                 project_groups_cache, cache_stats, stats, errors, out_vars, fetches, requests>>

(***************************************************************************)
(* get_identity_details                                                    *)
(***************************************************************************)
\* descriptor.startswith(("vssgp.", "aadgp.")) picks the groups endpoint
IdentityEndpoint(descriptor) ==
  IF descriptor \in GroupDescriptors THEN "group_identity" ELSE "user_identity"

GetIdentityDetails_Begin(t) ==
  /\ Running(t, "get_identity_details", "begin")
  /\ IF Top(t).descriptor \in DOMAIN identity_cache
     THEN /\ cache_stats' = [cache_stats EXCEPT !.user_hits = @ + 1]
          /\ Return(t, Some(identity_cache[Top(t).descriptor]))
     ELSE /\ cache_stats' = [cache_stats EXCEPT !.user_misses = @ + 1]
          /\ AwaitRequest(t, "response", IdentityEndpoint(Top(t).descriptor),
                          Top(t).descriptor, "get_identity")
          /\ UNCHANGED <<cur, ret>>
  /\ UNCHANGED <<env_vars, faultsLeft, semaphore, aad_group_locks, cache_vars, stats,
                 errors, out_vars, fetches, requests>>

\* variant: storing an identity drops the entries stored before
GetIdentityDetails_Response_Evicting(t) ==
  /\ Running(t, "get_identity_details", "response")
  /\ IF ret[t].none
     THEN Return(t, None) /\ UNCHANGED identity_cache
     ELSE /\ identity_cache' = Put(EmptyMap, Top(t).descriptor, ret[t].val)
          /\ Return(t, Some(ret[t].val))
  /\ UNCHANGED <<env_vars, faultsLeft, semaphore, aad_group_locks,
                 aad_group_members_cache, vsts_group_membership_cache, project_cache,
                 project_groups_cache, cache_stats, stats, errors, out_vars, fetches,
                 requests>>

GetIdentityDetails_Response(t) ==
  /\ Running(t, "get_identity_details", "response")
  /\ IF ret[t].none
     THEN Return(t, None) /\ UNCHANGED identity_cache
     ELSE /\ identity_cache' = Put(identity_cache, Top(t).descriptor, ret[t].val)
          /\ Return(t, Some(ret[t].val))
  /\ UNCHANGED <<env_vars, faultsLeft, semaphore, aad_group_locks,
                 aad_group_members_cache, vsts_group_membership_cache, project_cache,
                 project_groups_cache, cache_stats, stats, errors, out_vars, fetches, requests>>

Fetchers(t) ==
  \/ GetAllProjects_Begin(t) \/ GetAllProjects_Response(t)
  \/ GetProjectGroups_Begin(t) \/ GetProjectGroups_Response(t)
  \/ GetGroupMembers_Begin(t) \/ GetGroupMembers_Response(t)
  \/ GetIdentityDetails_Begin(t) \/ GetIdentityDetails_Response(t)

(***************************************************************************)
(* _get_aad_lock and resolve_aad_group_members                             *)
(***************************************************************************)
ResolveFrame(group_descriptor, group_name, chain) ==
  [fn |-> "resolve_aad_group_members", pc |-> "begin",
   group_descriptor |-> group_descriptor, group_name |-> group_name, chain |-> chain,
   memberships |-> <<>>, mi |-> 1, all_resolved_members |-> <<>>]

IdentityFrame(descriptor) ==
  [fn |-> "get_identity_details", pc |-> "begin", descriptor |-> descriptor]

\* variant: a new lock on every call, without the "not in" test
GetAadLock_AlwaysNew(locks, group_id) == Put(locks, group_id, FALSE)

\* if group_id not in self.aad_group_locks: self.aad_group_locks[group_id] = asyncio.Lock()
GetAadLock(locks, group_id) ==
  IF group_id \in DOMAIN locks THEN locks ELSE Put(locks, group_id, FALSE)

\* variant: the pairs carry the group's own name, not the calling path
WithChain_NameOnly(members, f) ==
  [n \in 1..Len(members) |-> [member |-> members[n], chain_str |-> f.group_name]]

\* [(member, chain_str) for member in members], chain_str = " > ".join(chain + [group_name])
WithChain(members, f) ==
  [n \in 1..Len(members) |->
     [member |-> members[n], chain_str |-> Join(Append(f.chain, f.group_name))]]

\* an element of all_resolved_members appended as member_details (a dict)
AsDict(member) == [isdict |-> TRUE, member |-> member, chain_str |-> ""]
\* the elements of all_resolved_members added by extend(nested_members) (tuples)
AsTuples(pairs) ==
  [n \in 1..Len(pairs) |->
     [isdict |-> FALSE, member |-> pairs[n].member, chain_str |-> pairs[n].chain_str]]

IsDict(m) == m.isdict
\* leaf_members = [m for m in all_resolved_members if isinstance(m, dict)]
LeafMembers(all_resolved_members) ==
  LET kept == SelectSeq(all_resolved_members, IsDict)
  IN  [n \in 1..Len(kept) |-> kept[n].member]

\* variant: leaving the async with block does not release the lock
Unlock_Kept(g) == aad_group_locks' = aad_group_locks

\* leaving the async with block
Unlock(g) == aad_group_locks' = [aad_group_locks EXCEPT ![g] = FALSE]

res_unchanged ==
  UNCHANGED <<env_vars, faultsLeft, semaphore, identity_cache,
              vsts_group_membership_cache, project_cache, project_groups_cache,
              errors, out_vars>>

\* if group_descriptor in chain: return []
Resolve_Cycle(t) ==
  /\ Running(t, "resolve_aad_group_members", "begin")
  /\ Top(t).group_descriptor \in Range(Top(t).chain)
  /\ Return(t, Pairs(<<>>))
  /\ UNCHANGED <<aad_group_locks, aad_group_members_cache, cache_stats, stats, fetches, requests>>
  /\ res_unchanged

\* variant: the cached call is counted as a miss
Resolve_Hit_CountedAsMiss(t) ==
  /\ Running(t, "resolve_aad_group_members", "begin")
  /\ Top(t).group_descriptor \notin Range(Top(t).chain)
  /\ Top(t).group_descriptor \in DOMAIN aad_group_members_cache
  /\ cache_stats' = [cache_stats EXCEPT !.aad_group_misses = @ + 1]
  /\ Return(t, Pairs(WithChain(aad_group_members_cache[Top(t).group_descriptor], Top(t))))
  /\ UNCHANGED <<aad_group_locks, aad_group_members_cache, stats, fetches, requests>>
  /\ res_unchanged

\* variant: the hit on the first check takes the lock of the group
Resolve_Hit_TakesLock(t) ==
  /\ Running(t, "resolve_aad_group_members", "begin")
  /\ Top(t).group_descriptor \notin Range(Top(t).chain)
  /\ Top(t).group_descriptor \in DOMAIN aad_group_members_cache
  /\ cache_stats' = [cache_stats EXCEPT !.aad_group_hits = @ + 1]
  /\ aad_group_locks' = Put(aad_group_locks, Top(t).group_descriptor, TRUE)
  /\ Return(t, Pairs(WithChain(aad_group_members_cache[Top(t).group_descriptor], Top(t))))
  /\ UNCHANGED <<aad_group_members_cache, stats, fetches, requests>>
  /\ res_unchanged

\* the first cache check hits
Resolve_Hit(t) ==
  /\ Running(t, "resolve_aad_group_members", "begin")
  /\ Top(t).group_descriptor \notin Range(Top(t).chain)
  /\ Top(t).group_descriptor \in DOMAIN aad_group_members_cache
  /\ cache_stats' = [cache_stats EXCEPT !.aad_group_hits = @ + 1]
  /\ Return(t, Pairs(WithChain(aad_group_members_cache[Top(t).group_descriptor], Top(t))))
  /\ UNCHANGED <<aad_group_locks, aad_group_members_cache, stats, fetches, requests>>
  /\ res_unchanged

\* the first cache check misses: count it and get the group's lock
Resolve_Miss(t) ==
  /\ Running(t, "resolve_aad_group_members", "begin")
  /\ Top(t).group_descriptor \notin Range(Top(t).chain)
  /\ Top(t).group_descriptor \notin DOMAIN aad_group_members_cache
  /\ cache_stats' = [cache_stats EXCEPT !.aad_group_misses = @ + 1]
  /\ aad_group_locks' = GetAadLock(aad_group_locks, Top(t).group_descriptor)
  /\ stack' = SetTop(t, [Top(t) EXCEPT !.pc = "lock"])
  /\ UNCHANGED <<cur, ret, aad_group_members_cache, stats, fetches, requests>>
  /\ res_unchanged

\* async with lock: the lock is free
Resolve_LockAcquire(t) ==
  /\ Running(t, "resolve_aad_group_members", "lock")
  /\ ~aad_group_locks[Top(t).group_descriptor]
  /\ aad_group_locks' = [aad_group_locks EXCEPT ![Top(t).group_descriptor] = TRUE]
  /\ stack' = SetTop(t, [Top(t) EXCEPT !.pc = "locked"])
  /\ UNCHANGED <<cur, ret, aad_group_members_cache, cache_stats, stats, fetches, requests>>
  /\ res_unchanged

\* async with lock: the lock is held, the caller is suspended
Resolve_LockBlocked(t) ==
  /\ Running(t, "resolve_aad_group_members", "lock")
  /\ aad_group_locks[Top(t).group_descriptor]
  /\ stack' = SetTop(t, [Top(t) EXCEPT !.pc = "wait_lock"])
  /\ cur' = NoTask
  /\ UNCHANGED <<ret, aad_group_locks, aad_group_members_cache, cache_stats, stats,
                 fetches, requests>>
  /\ res_unchanged

\* variant: a suspended caller goes on although the lock is still held
Resolve_LockWake_Unguarded(t) ==
  /\ Resumed(t, "resolve_aad_group_members", "wait_lock")
  /\ aad_group_locks' = [aad_group_locks EXCEPT ![Top(t).group_descriptor] = TRUE]
  /\ stack' = SetTop(t, [Top(t) EXCEPT !.pc = "locked"])
  /\ cur' = t
  /\ UNCHANGED <<ret, aad_group_members_cache, cache_stats, stats, fetches, requests>>
  /\ res_unchanged

\* the lock was released: a suspended caller takes it
Resolve_LockWake(t) ==
  /\ Resumed(t, "resolve_aad_group_members", "wait_lock")
  /\ ~aad_group_locks[Top(t).group_descriptor]
  /\ aad_group_locks' = [aad_group_locks EXCEPT ![Top(t).group_descriptor] = TRUE]
  /\ stack' = SetTop(t, [Top(t) EXCEPT !.pc = "locked"])
  /\ cur' = t
  /\ UNCHANGED <<ret, aad_group_members_cache, cache_stats, stats, fetches, requests>>
  /\ res_unchanged

\* the second cache check, under the lock, hits
Resolve_RecheckHit(t) ==
  /\ Running(t, "resolve_aad_group_members", "locked")
  /\ Top(t).group_descriptor \in DOMAIN aad_group_members_cache
  /\ cache_stats' = [cache_stats EXCEPT !.aad_group_hits = @ + 1]
  /\ Unlock(Top(t).group_descriptor)
  /\ Return(t, Pairs(WithChain(aad_group_members_cache[Top(t).group_descriptor], Top(t))))
  /\ UNCHANGED <<aad_group_members_cache, stats, fetches, requests>>
  /\ res_unchanged

\* still absent under the lock: fetch the group's memberships
Resolve_Fetch(t) ==
  /\ Running(t, "resolve_aad_group_members", "locked")
  /\ Top(t).group_descriptor \notin DOMAIN aad_group_members_cache
  /\ AwaitRequest(t, "response", "memberships", Top(t).group_descriptor, "resolve_aad")
  /\ fetches' = [fetches EXCEPT ![Top(t).group_descriptor] = @ + 1]
  /\ UNCHANGED <<cur, ret, aad_group_locks, aad_group_members_cache, cache_stats, stats,
                 requests>>
  /\ res_unchanged

\* variant: a failed fetch returns [] without storing it
Resolve_NoMembers_NotCached(t) ==
  /\ Running(t, "resolve_aad_group_members", "response")
  /\ ret[t].none
  /\ Unlock(Top(t).group_descriptor)
  /\ Return(t, Pairs(<<>>))
  /\ UNCHANGED <<aad_group_members_cache, cache_stats, stats, fetches, requests>>
  /\ res_unchanged

\* if not response or "value" not in response: cache [] and return []
Resolve_NoMembers(t) ==
  /\ Running(t, "resolve_aad_group_members", "response")
  /\ ret[t].none
  /\ aad_group_members_cache' =
       Put(aad_group_members_cache, Top(t).group_descriptor, <<>>)
  /\ Unlock(Top(t).group_descriptor)
  /\ Return(t, Pairs(<<>>))
  /\ UNCHANGED <<cache_stats, stats, fetches, requests>>
  /\ res_unchanged

\* memberships = response["value"]; all_resolved_members = []
Resolve_GotMembers(t) ==
  /\ Running(t, "resolve_aad_group_members", "response")
  /\ ~ret[t].none
  /\ stack' = SetTop(t, [Top(t) EXCEPT !.pc = "members", !.memberships = ret[t].val,
                                       !.mi = 1, !.all_resolved_members = <<>>])
  /\ UNCHANGED <<cur, ret, aad_group_locks, aad_group_members_cache, cache_stats, stats,
                 fetches, requests>>
  /\ res_unchanged

\* for membership in memberships: member_details = await self.get_identity_details(...)
Resolve_NextMember(t) ==
  /\ Running(t, "resolve_aad_group_members", "members")
  /\ Top(t).mi <= Len(Top(t).memberships)
  /\ stack' = Call(t, [Top(t) EXCEPT !.pc = "identity"],
                   IdentityFrame(Top(t).memberships[Top(t).mi]))
  /\ UNCHANGED <<cur, ret, aad_group_locks, aad_group_members_cache, cache_stats, stats,
                 fetches, requests>>
  /\ res_unchanged

\* variant: a member whose identity is missing ends the loop over the members
Resolve_MemberMissing_EndsLoop(t) ==
  /\ Running(t, "resolve_aad_group_members", "identity")
  /\ ret[t].none
  /\ stack' = SetTop(t, [Top(t) EXCEPT !.pc = "members",
                                       !.mi = Len(Top(t).memberships) + 1])
  /\ UNCHANGED <<cur, ret, aad_group_locks, aad_group_members_cache, cache_stats, stats,
                 fetches, requests>>
  /\ res_unchanged

\* if not member_details: continue
Resolve_MemberMissing(t) ==
  /\ Running(t, "resolve_aad_group_members", "identity")
  /\ ret[t].none
  /\ stack' = SetTop(t, [Top(t) EXCEPT !.pc = "members", !.mi = @ + 1])
  /\ UNCHANGED <<cur, ret, aad_group_locks, aad_group_members_cache, cache_stats, stats,
                 fetches, requests>>
  /\ res_unchanged

\* the member is a group: recurse with chain + [group_name]
Resolve_MemberGroup(t) ==
  /\ Running(t, "resolve_aad_group_members", "identity")
  /\ ~ret[t].none
  /\ SubjectKindOf(ret[t].val[1]) = "group"
  /\ stack' = Call(t, [Top(t) EXCEPT !.pc = "nested"],
                   ResolveFrame(Top(t).memberships[Top(t).mi],
                                DisplayNameOf(ret[t].val[1]),
                                Append(Top(t).chain, Top(t).group_name)))
  /\ UNCHANGED <<cur, ret, aad_group_locks, aad_group_members_cache, cache_stats, stats,
                 fetches, requests>>
  /\ res_unchanged

\* all_resolved_members.extend(nested_members)
Resolve_Nested(t) ==
  /\ Running(t, "resolve_aad_group_members", "nested")
  /\ stack' = SetTop(t, [Top(t) EXCEPT
                !.pc = "members", !.mi = @ + 1,
                !.all_resolved_members = @ \o AsTuples(ret[t].pairs)])
  /\ UNCHANGED <<cur, ret, aad_group_locks, aad_group_members_cache, cache_stats, stats,
                 fetches, requests>>
  /\ res_unchanged

\* variant: the member is appended whatever its subjectKind
Resolve_MemberLeaf_AnyKind(t) ==
  /\ Running(t, "resolve_aad_group_members", "identity")
  /\ ~ret[t].none
  /\ stack' = SetTop(t, [Top(t) EXCEPT
                !.pc = "members", !.mi = @ + 1,
                !.all_resolved_members = Append(@, AsDict(ret[t].val[1]))])
  /\ UNCHANGED <<cur, ret, aad_group_locks, aad_group_members_cache, cache_stats, stats,
                 fetches, requests>>
  /\ res_unchanged

\* the member is a user or service principal: all_resolved_members.append(member_details)
Resolve_MemberLeaf(t) ==
  /\ Running(t, "resolve_aad_group_members", "identity")
  /\ ~ret[t].none
  /\ SubjectKindOf(ret[t].val[1]) # "group"
  /\ stack' = SetTop(t, [Top(t) EXCEPT
                !.pc = "members", !.mi = @ + 1,
                !.all_resolved_members = Append(@, AsDict(ret[t].val[1]))])
  /\ UNCHANGED <<cur, ret, aad_group_locks, aad_group_members_cache, cache_stats, stats,
                 fetches, requests>>
  /\ res_unchanged

\* after the loop: cache the leaf members, count the group, return with the chain
\* variant: what is stored depends on the chain of the populating call
Resolve_Finish_PathDependent(t) ==
  /\ Running(t, "resolve_aad_group_members", "members")
  /\ Top(t).mi > Len(Top(t).memberships)
  /\ aad_group_members_cache' =
       Put(aad_group_members_cache, Top(t).group_descriptor,
           IF Top(t).chain = <<>> THEN LeafMembers(Top(t).all_resolved_members)
           ELSE <<>>)
  /\ stats' = [stats EXCEPT !.aad_groups_resolved = @ + 1]
  /\ Unlock(Top(t).group_descriptor)
  /\ Return(t, Pairs(WithChain(LeafMembers(Top(t).all_resolved_members), Top(t))))
  /\ UNCHANGED <<cache_stats, fetches, requests>>
  /\ res_unchanged

Resolve_Finish(t) ==
  /\ Running(t, "resolve_aad_group_members", "members")
  /\ Top(t).mi > Len(Top(t).memberships)
  /\ aad_group_members_cache' =
       Put(aad_group_members_cache, Top(t).group_descriptor,
           LeafMembers(Top(t).all_resolved_members))
  /\ stats' = [stats EXCEPT !.aad_groups_resolved = @ + 1]
  /\ Unlock(Top(t).group_descriptor)
  /\ Return(t, Pairs(WithChain(LeafMembers(Top(t).all_resolved_members), Top(t))))
  /\ UNCHANGED <<cache_stats, fetches, requests>>
  /\ res_unchanged

Resolver(t) ==
  \/ Resolve_Cycle(t) \/ Resolve_Hit(t) \/ Resolve_Miss(t)
  \/ Resolve_LockAcquire(t) \/ Resolve_LockBlocked(t) \/ Resolve_LockWake(t)
  \/ Resolve_RecheckHit(t) \/ Resolve_Fetch(t)
  \/ Resolve_NoMembers(t) \/ Resolve_GotMembers(t)
  \/ Resolve_NextMember(t) \/ Resolve_MemberMissing(t) \/ Resolve_MemberGroup(t)
  \/ Resolve_Nested(t) \/ Resolve_MemberLeaf(t) \/ Resolve_Finish(t)

(***************************************************************************)
(* _determine_member_type and _create_permission_entry                     *)
(***************************************************************************)
\* the characters of the strings that are lower-cased or searched
Spelling ==
  "" :> <<>>
  @@ "group" :> <<"g", "r", "o", "u", "p">>
  @@ "Group" :> <<"G", "r", "o", "u", "p">>
  @@ "GROUP" :> <<"G", "R", "O", "U", "P">>
  @@ "user" :> <<"u", "s", "e", "r">>
  @@ "User" :> <<"U", "s", "e", "r">>
  @@ "device" :> <<"d", "e", "v", "i", "c", "e">>
  @@ "tenant" :> <<"t", "e", "n", "a", "n", "t">>
  @@ "build" :> <<"b", "u", "i", "l", "d">>
  @@ "Build" :> <<"B", "u", "i", "l", "d">>
  @@ "mybuildfarm" :> <<"m", "y", "b", "u", "i", "l", "d", "f", "a", "r", "m">>
  @@ "corp.ServiceAccount" :> <<"c", "o", "r", "p", ".", "S", "e", "r", "v", "i", "c", "e", "A", "c", "c", "o", "u", "n", "t">>
  @@ "rebuilt" :> <<"r", "e", "b", "u", "i", "l", "t">>
  @@ "U1" :> <<"U", "1">>
  @@ "U2" :> <<"U", "2">>
  @@ "aad.U1" :> <<"a", "a", "d", ".", "U", "1">>
  @@ "aad.U2" :> <<"a", "a", "d", ".", "U", "2">>
  @@ "app@myorg" :> <<"a", "p", "p", "@", "m", "y", "o", "r", "g">>
  @@ "App@MyOrg" :> <<"A", "p", "p", "@", "M", "y", "O", "r", "g">>
  @@ "agent7" :> <<"a", "g", "e", "n", "t", "7">>
  @@ "pn@corp" :> <<"p", "n", "@", "c", "o", "r", "p">>
  @@ "snapp@x" :> <<"s", "n", "a", "p", "p", "@", "x">>
  @@ "app@" :> <<"a", "p", "p", "@">>
  @@ "serviceaccount" :> <<"s", "e", "r", "v", "i", "c", "e", "a", "c", "c", "o", "u", "n", "t">>
Spell(text) == Spelling[text]

UpperCase ==
  "A" :> "a" @@ "B" :> "b" @@ "C" :> "c" @@ "D" :> "d" @@ "E" :> "e" @@ "F" :> "f" @@ "G" :> "g"
  @@ "H" :> "h" @@ "I" :> "i" @@ "J" :> "j" @@ "K" :> "k" @@ "L" :> "l" @@ "M" :> "m" @@ "N" :> "n"
  @@ "O" :> "o" @@ "P" :> "p" @@ "Q" :> "q" @@ "R" :> "r" @@ "S" :> "s" @@ "T" :> "t" @@ "U" :> "u"
  @@ "V" :> "v" @@ "W" :> "w" @@ "X" :> "x" @@ "Y" :> "y" @@ "Z" :> "z"
\* str.lower()
Lower(chars) ==
  [n \in 1..Len(chars) |->
     IF chars[n] \in DOMAIN UpperCase THEN UpperCase[chars[n]] ELSE chars[n]]

\* sub in chars
Contains(sub, chars) ==
  \E n \in 0..(Len(chars) - Len(sub)) : SubSeq(chars, n + 1, n + Len(sub)) = sub

\* variant: the attributes are compared as they come, without lower()
DetermineMemberType_CaseSensitive(member) ==
  LET subject_kind == Spell(member.subjectKind)
      domain == Spell(member.domain)
      principal_name == Spell(member.principalName)
  IN  IF subject_kind = Spell("group") THEN "aad_group"
      ELSE IF subject_kind = Spell("user")
           THEN IF Contains(Spell("app@"), principal_name) \/ domain = Spell("build")
                THEN "service_principal" ELSE "user"
           ELSE IF Contains(Spell("serviceaccount"), domain)
                   \/ Contains(Spell("build"), domain)
                THEN "service_principal" ELSE "unknown"

DetermineMemberType(member) ==
  LET subject_kind == Lower(Spell(member.subjectKind))
      domain == Lower(Spell(member.domain))
      principal_name == Lower(Spell(member.principalName))
  IN  IF subject_kind = Spell("group") THEN "aad_group"
      ELSE IF subject_kind = Spell("user")
           THEN IF Contains(Spell("app@"), principal_name) \/ domain = Spell("build")
                THEN "service_principal" ELSE "user"
           ELSE IF Contains(Spell("serviceaccount"), domain)
                   \/ Contains(Spell("build"), domain)
                THEN "service_principal" ELSE "unknown"

\* variant: an identity without a principal name is dropped
HasName_PrincipalOnly(member) == PrincipalNameOf(member) # ""

\* if not principal_name and not display_name: return None
HasName(member) == PrincipalNameOf(member) # "" \/ DisplayNameOf(member) # ""

CreatePermissionEntry(project, member, group_descriptor, assignment_type, aad_chain) ==
  [project_name |-> project,
   user_principal_name |-> IF PrincipalNameOf(member) # "" THEN PrincipalNameOf(member)
                           ELSE DisplayNameOf(member),
   user_display_name |-> IF DisplayNameOf(member) # "" THEN DisplayNameOf(member)
                         ELSE PrincipalNameOf(member),
   user_id |-> member,
   user_type |-> DetermineMemberType(MemberDetails(member)),
   vsts_group_name |-> DisplayNameOf(group_descriptor),
   vsts_group_id |-> group_descriptor,
   assignment_type |-> assignment_type,
   aad_group_chain |-> aad_chain]

\* the rows written for the pairs the resolver returned
ResolvedPairHasName(pair) == HasName(pair.member)
ResolvedEntries(project, group_descriptor, aad_group_name, resolved_members) ==
  LET named == SelectSeq(resolved_members, ResolvedPairHasName)
  IN  [n \in 1..Len(named) |->
         CreatePermissionEntry(project, named[n].member, group_descriptor,
                               aad_group_name, named[n].chain_str)]

(***************************************************************************)
(* process_project_permissions                                             *)
(***************************************************************************)
ProjectFrame(project) ==
  [fn |-> "process_project_permissions", pc |-> "begin", project |-> project,
   groups |-> <<>>, gi |-> 1, memberships |-> <<>>, mi |-> 1]

ppp_unchanged ==
  UNCHANGED <<env_vars, faultsLeft, semaphore, aad_group_locks, cache_vars,
              cache_stats, errors, fetches, requests>>

\* the task is scheduled: groups = await self.get_project_groups(...)
PPP_Begin(t) ==
  /\ Resumed(t, "process_project_permissions", "begin")
  /\ cur' = t
  /\ stack' = Call(t, [Top(t) EXCEPT !.pc = "groups"],
                   [fn |-> "get_project_groups", pc |-> "begin",
                    project_id |-> Top(t).project])
  /\ UNCHANGED <<ret, stats, out_vars>>
  /\ ppp_unchanged

\* if not groups: return (nothing is flushed or counted)
PPP_NoGroups(t) ==
  /\ Running(t, "process_project_permissions", "groups")
  /\ ret[t].val = <<>>
  /\ Return(t, None)
  /\ UNCHANGED <<stats, out_vars>>
  /\ ppp_unchanged

PPP_GotGroups(t) ==
  /\ Running(t, "process_project_permissions", "groups")
  /\ ret[t].val # <<>>
  /\ stack' = SetTop(t, [Top(t) EXCEPT !.pc = "group_loop", !.groups = ret[t].val,
                                       !.gi = 1])
  /\ UNCHANGED <<cur, ret, stats, out_vars>>
  /\ ppp_unchanged

\* for group in groups: memberships = await self.get_group_members(...)
PPP_NextGroup(t) ==
  /\ Running(t, "process_project_permissions", "group_loop")
  /\ Top(t).gi <= Len(Top(t).groups)
  /\ stack' = Call(t, [Top(t) EXCEPT !.pc = "memberships"],
                   [fn |-> "get_group_members", pc |-> "begin",
                    group_descriptor |-> Top(t).groups[Top(t).gi],
                    project_name |-> Top(t).project])
  /\ UNCHANGED <<cur, ret, stats, out_vars>>
  /\ ppp_unchanged

\* self.stats["vsts_groups_processed"] += 1
PPP_Memberships(t) ==
  /\ Running(t, "process_project_permissions", "memberships")
  /\ stack' = SetTop(t, [Top(t) EXCEPT !.pc = "members", !.memberships = ret[t].val,
                                       !.mi = 1])
  /\ stats' = [stats EXCEPT !.vsts_groups_processed = @ + 1]
  /\ UNCHANGED <<cur, ret, out_vars>>
  /\ ppp_unchanged

\* for membership in memberships: member_details = await self.get_identity_details(...)
PPP_NextMember(t) ==
  /\ Running(t, "process_project_permissions", "members")
  /\ Top(t).mi <= Len(Top(t).memberships)
  /\ stack' = Call(t, [Top(t) EXCEPT !.pc = "identity"],
                   IdentityFrame(Top(t).memberships[Top(t).mi]))
  /\ UNCHANGED <<cur, ret, stats, out_vars>>
  /\ ppp_unchanged

\* the memberships of this group are done: next group
PPP_GroupDone(t) ==
  /\ Running(t, "process_project_permissions", "members")
  /\ Top(t).mi > Len(Top(t).memberships)
  /\ stack' = SetTop(t, [Top(t) EXCEPT !.pc = "group_loop", !.gi = @ + 1])
  /\ UNCHANGED <<cur, ret, stats, out_vars>>
  /\ ppp_unchanged

\* if not member_details: continue
PPP_MemberMissing(t) ==
  /\ Running(t, "process_project_permissions", "identity")
  /\ ret[t].none
  /\ stack' = SetTop(t, [Top(t) EXCEPT !.pc = "members", !.mi = @ + 1])
  /\ UNCHANGED <<cur, ret, stats, out_vars>>
  /\ ppp_unchanged

\* variant: the resolver is called with the platform group's name as its chain
PPP_MemberGroup_WithChain(t) ==
  /\ Running(t, "process_project_permissions", "identity")
  /\ ~ret[t].none
  /\ SubjectKindOf(ret[t].val[1]) = "group"
  /\ stack' = Call(t, [Top(t) EXCEPT !.pc = "resolved"],
                   ResolveFrame(Top(t).memberships[Top(t).mi],
                                DisplayNameOf(ret[t].val[1]),
                                <<DisplayNameOf(Top(t).groups[Top(t).gi])>>))
  /\ UNCHANGED <<cur, ret, stats, out_vars>>
  /\ ppp_unchanged

\* subject_kind == "group": resolve it from the top level (no chain argument)
PPP_MemberGroup(t) ==
  /\ Running(t, "process_project_permissions", "identity")
  /\ ~ret[t].none
  /\ SubjectKindOf(ret[t].val[1]) = "group"
  /\ stack' = Call(t, [Top(t) EXCEPT !.pc = "resolved"],
                   ResolveFrame(Top(t).memberships[Top(t).mi],
                                DisplayNameOf(ret[t].val[1]), <<>>))
  /\ UNCHANGED <<cur, ret, stats, out_vars>>
  /\ ppp_unchanged

\* variant: the rows of a resolved directory group are labelled "direct"
PPP_Resolved_AsDirect(t) ==
  /\ Running(t, "process_project_permissions", "resolved")
  /\ LET entries ==
           ResolvedEntries(Top(t).project, Top(t).groups[Top(t).gi], "direct", ret[t].pairs)
     IN  /\ csv_rows' = csv_rows \o entries
         /\ stats' = [stats EXCEPT !.total_permissions = @ + Len(entries)]
  /\ stack' = SetTop(t, [Top(t) EXCEPT !.pc = "members", !.mi = @ + 1])
  /\ UNCHANGED <<cur, ret, flushed>>
  /\ ppp_unchanged

\* one row per resolved member that has a name
PPP_Resolved(t) ==
  /\ Running(t, "process_project_permissions", "resolved")
  /\ LET entries ==
           ResolvedEntries(Top(t).project, Top(t).groups[Top(t).gi],
                           DisplayNameOf(Top(t).memberships[Top(t).mi]), ret[t].pairs)
     IN  /\ csv_rows' = csv_rows \o entries
         /\ stats' = [stats EXCEPT !.total_permissions = @ + Len(entries)]
  /\ stack' = SetTop(t, [Top(t) EXCEPT !.pc = "members", !.mi = @ + 1])
  /\ UNCHANGED <<cur, ret, flushed>>
  /\ ppp_unchanged

\* a direct member: one row with assignment "direct" and an empty chain
PPP_MemberDirect(t) ==
  /\ Running(t, "process_project_permissions", "identity")
  /\ ~ret[t].none
  /\ SubjectKindOf(ret[t].val[1]) # "group"
  /\ IF HasName(ret[t].val[1])
     THEN /\ csv_rows' = Append(csv_rows,
                           CreatePermissionEntry(Top(t).project, ret[t].val[1],
                                                 Top(t).groups[Top(t).gi], "direct", ""))
          /\ stats' = [stats EXCEPT !.total_permissions = @ + 1]
     ELSE UNCHANGED <<csv_rows, stats>>
  /\ stack' = SetTop(t, [Top(t) EXCEPT !.pc = "members", !.mi = @ + 1])
  /\ UNCHANGED <<cur, ret, flushed>>
  /\ ppp_unchanged

\* variant: a failed write ends the processing of the whole project
PPP_WriteRaises_Aborts(t) ==
  /\ Running(t, "process_project_permissions", "identity")
  /\ ~ret[t].none
  /\ SubjectKindOf(ret[t].val[1]) # "group"
  /\ HasName(ret[t].val[1])
  /\ Raise
  /\ errors' = Append(errors,
                      ProcessingError("membership_processing_error",
                                      Top(t).project \o ":"
                                        \o DisplayNameOf(Top(t).groups[Top(t).gi])))
  /\ Return(t, None)
  /\ UNCHANGED <<dir, faultsLeft, semaphore, aad_group_locks, cache_vars, cache_stats,
                 stats, out_vars, fetches, requests>>

\* csv_writer.writerow raises: the rows of this membership written so far stay, the
\* error is recorded and the loop goes on with the next membership
PPP_WriteRaises(t) ==
  /\ \/ /\ Running(t, "process_project_permissions", "identity")
        /\ ~ret[t].none
        /\ SubjectKindOf(ret[t].val[1]) # "group"
        /\ HasName(ret[t].val[1])
        /\ UNCHANGED <<csv_rows, stats>>
     \/ /\ Running(t, "process_project_permissions", "resolved")
        /\ LET entries ==
                 ResolvedEntries(Top(t).project, Top(t).groups[Top(t).gi],
                                 DisplayNameOf(Top(t).memberships[Top(t).mi]),
                                 ret[t].pairs)
           IN  \E written \in 0..(Len(entries) - 1) :
                 /\ csv_rows' = csv_rows \o SubSeq(entries, 1, written)
                 /\ stats' = [stats EXCEPT !.total_permissions = @ + written]
  /\ Raise
  /\ errors' = Append(errors,
                      ProcessingError("membership_processing_error",
                                      Top(t).project \o ":"
                                        \o DisplayNameOf(Top(t).groups[Top(t).gi])))
  /\ stack' = SetTop(t, [Top(t) EXCEPT !.pc = "members", !.mi = @ + 1])
  /\ UNCHANGED <<dir, faultsLeft, cur, ret, flushed, semaphore, aad_group_locks,
                 cache_vars, cache_stats, fetches, requests>>

\* the memberships body has a null "value": get_group_members caches it and raises
\* at len(members); the group handler records the error and goes to the next group
PPP_GroupRaises(t) ==
  /\ Running(t, "get_group_members", "response")
  /\ ~ret[t].none
  /\ Raise
  /\ vsts_group_membership_cache' =
       Put(vsts_group_membership_cache, MembershipKey(Top(t)), NullValue)
  /\ LET caller == stack[t][Depth(t) - 1]
     IN  /\ errors' = Append(errors,
                             ProcessingError("group_processing_error",
                                             caller.project \o ":"
                                               \o DisplayNameOf(caller.groups[caller.gi])))
         /\ stack' = [stack EXCEPT ![t] =
                        Append(SubSeq(@, 1, Len(@) - 2),
                               [caller EXCEPT !.pc = "group_loop", !.gi = @ + 1])]
  /\ ret' = [ret EXCEPT ![t] = None]
  /\ UNCHANGED <<dir, faultsLeft, cur, semaphore, aad_group_locks,
                 aad_group_members_cache, identity_cache, project_cache,
                 project_groups_cache, cache_stats, stats, out_vars, fetches, requests>>

\* csv_file.flush() raises: the project handler records the error and the task ends
\* without counting the project
PPP_FlushRaises(t) ==
  /\ Running(t, "process_project_permissions", "group_loop")
  /\ Top(t).gi > Len(Top(t).groups)
  /\ Raise
  /\ errors' = Append(errors, ProcessingError("project_processing_error", Top(t).project))
  /\ Return(t, None)
  /\ UNCHANGED <<dir, faultsLeft, semaphore, aad_group_locks, cache_vars, cache_stats,
                 stats, out_vars, fetches, requests>>

\* after the last group: csv_file.flush(); projects_processed += 1
PPP_Finish(t) ==
  /\ Running(t, "process_project_permissions", "group_loop")
  /\ Top(t).gi > Len(Top(t).groups)
  /\ flushed' = Len(csv_rows)
  /\ stats' = [stats EXCEPT !.projects_processed = @ + 1]
  /\ Return(t, None)
  /\ UNCHANGED csv_rows
  /\ ppp_unchanged

ProcessProject(t) ==
  \/ PPP_Begin(t) \/ PPP_NoGroups(t) \/ PPP_GotGroups(t) \/ PPP_NextGroup(t)
  \/ PPP_Memberships(t) \/ PPP_NextMember(t) \/ PPP_GroupDone(t)
  \/ PPP_MemberMissing(t) \/ PPP_MemberGroup(t) \/ PPP_Resolved(t)
  \/ PPP_MemberDirect(t) \/ PPP_Finish(t)
  \/ PPP_WriteRaises(t) \/ PPP_GroupRaises(t) \/ PPP_FlushRaises(t)

(***************************************************************************)
(* run_audit                                                               *)
(***************************************************************************)
Min(a, b) == IF a < b THEN a ELSE b
\* batch = projects[i : i + batch_size]
Batch(projects, i) == SubSeq(projects, i + 1, Min(i + batch_size, Len(projects)))

\* tasks = [self.process_project_permissions(...) for project in batch]; gather(*tasks)
Gather(t, f) ==
  /\ stack' = [p \in Tasks |->
                 IF p = t THEN [stack[t] EXCEPT ![Len(stack[t])] = f]
                 ELSE IF p \in Range(Batch(f.projects, f.i)) THEN <<ProjectFrame(p)>>
                 ELSE stack[p]]
  /\ cur' = NoTask

run_unchanged ==
  UNCHANGED <<env_vars, faultsLeft, semaphore, aad_group_locks, cache_vars,
              cache_stats, stats, errors, out_vars, fetches, requests>>

\* projects = await self.get_all_projects(session)
RunAudit_Begin(t) ==
  /\ Running(t, "run_audit", "begin")
  /\ stack' = Call(t, [Top(t) EXCEPT !.pc = "projects"],
                   [fn |-> "get_all_projects", pc |-> "begin"])
  /\ UNCHANGED <<cur, ret>>
  /\ run_unchanged

\* variant: without an enumeration the run goes on with the projects of the directory
RunAudit_NoProjects_FansOut(t) ==
  /\ Running(t, "run_audit", "projects")
  /\ ret[t].val = <<>>
  /\ dir.projects # <<>>
  /\ Gather(t, [fn |-> "run_audit", pc |-> "gather", projects |-> dir.projects, i |-> 0])
  /\ UNCHANGED ret
  /\ run_unchanged

\* if not projects: return
RunAudit_NoProjects(t) ==
  /\ Running(t, "run_audit", "projects")
  /\ ret[t].val = <<>>
  /\ Return(t, None)
  /\ run_unchanged

\* the csv file is opened and the first batch is started
RunAudit_FirstBatch(t) ==
  /\ Running(t, "run_audit", "projects")
  /\ ret[t].val # <<>>
  /\ Gather(t, [fn |-> "run_audit", pc |-> "gather", projects |-> ret[t].val, i |-> 0])
  /\ UNCHANGED ret
  /\ run_unchanged

\* variant: gather returns although tasks of the batch are still running
RunAudit_Resume_NoBarrier(t) ==
  /\ cur = NoTask
  /\ Depth(t) > 0
  /\ Top(t).fn = "run_audit"
  /\ IF Top(t).pc = "gather"
     THEN IF Top(t).i + batch_size < Len(Top(t).projects)
          THEN /\ stack' = SetTop(t, [Top(t) EXCEPT !.pc = "batch_sleep"])
               /\ UNCHANGED <<cur, ret>>
          ELSE Return(t, None)
     ELSE /\ Top(t).pc = "batch_sleep"
          /\ Gather(t, [Top(t) EXCEPT !.pc = "gather", !.i = @ + batch_size])
          /\ UNCHANGED ret
  /\ run_unchanged

\* gather returns when every task of the batch has ended; then either the pause
\* before the next batch, or the end of the run.  After the pause the next batch starts.
RunAudit_Resume(t) ==
  /\ cur = NoTask
  /\ Depth(t) > 0
  /\ Top(t).fn = "run_audit"
  /\ IF Top(t).pc = "gather"
     THEN /\ \A p \in Range(Batch(Top(t).projects, Top(t).i)) : stack[p] = <<>>
          /\ IF Top(t).i + batch_size < Len(Top(t).projects)
             THEN /\ stack' = SetTop(t, [Top(t) EXCEPT !.pc = "batch_sleep"])
                  /\ UNCHANGED <<cur, ret>>
             ELSE Return(t, None)
     ELSE /\ Top(t).pc = "batch_sleep"
          /\ Gather(t, [Top(t) EXCEPT !.pc = "gather", !.i = @ + batch_size])
          /\ UNCHANGED ret
  /\ run_unchanged

RunAudit(t) ==
  \/ RunAudit_Begin(t) \/ RunAudit_NoProjects(t) \/ RunAudit_FirstBatch(t)
  \/ RunAudit_Resume(t)

(***************************************************************************)
(* The specification.                                                      *)
(***************************************************************************)
Next ==
  \E t \in Tasks :
    \/ MakeRequest(t)
    \/ Fetchers(t)
    \/ Resolver(t)
    \/ ProcessProject(t)
    \/ RunAudit(t)

Spec == Init /\ [][Next]_vars

\* the event loop runs a task whenever one is ready, and every request gets its answer
\* or its timeout: a step that can be taken is taken in the end
\* (every step moves a task's position or hands over the loop)
sched_vars == <<cur, stack>>
FairSpec == Spec /\ WF_sched_vars(Next)

TypeOK ==
  /\ cur \in Tasks \cup {NoTask}
  /\ semaphore \in 0..dir.max_concurrent
  /\ faultsLeft \in 0..dir.faults
  /\ raisesLeft \in 0..dir.raises

(***************************************************************************)
(* Vocabulary of the properties.                                           *)
(***************************************************************************)
RESOLVE == "resolve_aad_group_members"
PPP == "process_project_permissions"
REQUEST == "_make_request"

\* no response other than a good 200 has been given so far
Faultless == faultsLeft = dir.faults /\ raisesLeft = dir.raises
AuditDone == \A t \in Tasks : stack[t] = <<>>

\* t's top frame has just got back the result of a resolver call it made
GotResolved(t) == At(t, PPP, "resolved") \/ At(t, RESOLVE, "nested")
\* the descriptor that call was for, and the chain it was given
CalledGroup(t) == Top(t).memberships[Top(t).mi]
CalledChain(t) ==
  IF Top(t).fn = PPP THEN <<>> ELSE Append(Top(t).chain, Top(t).group_name)
\* the leaf identities of a list of (member, chain_str) pairs
Leaves(pairs) == [n \in 1..Len(pairs) |-> pairs[n].member]

ResolvePending ==
  \E t \in Tasks : \E n \in 1..Len(stack[t]) : stack[t][n].fn = RESOLVE

DirectoryGroups == DOMAIN dir.members
RECURSIVE Below(_, _)
\* the descriptors reachable from g in at most n membership steps
Below(g, n) ==
  IF n = 0 THEN {}
  ELSE Range(MembersOf(g))
       \cup UNION {Below(m, n - 1) : m \in Range(MembersOf(g)) \cap GroupDescriptors}
Reachable(g) == Below(g, Cardinality(GroupDescriptors) + 1)
ReachableLeaves(g) == Reachable(g) \cap UserDescriptors
Acyclic == \A g \in DirectoryGroups : g \notin Reachable(g)

\* the chain strings made of at most n display names of the directory's groups
RECURSIVE ChainsUpTo(_)
ChainsUpTo(n) ==
  IF n = 0 THEN {<<>>}
  ELSE ChainsUpTo(n - 1)
       \cup {Append(c, DisplayNameOf(g)) : c \in ChainsUpTo(n - 1), g \in DirectoryGroups}
ChainStringsUpTo(n) == {Join(c) : c \in ChainsUpTo(n) \ {<<>>}}

(***************************************************************************)
(* C1  Cycle safety: on a membership graph with a cycle a resolution       *)
(* started with an empty chain returns (the run is never stuck with a      *)
(* resolver call pending), and no chain string it returns has more group   *)
(* names than the graph has distinct groups.                               *)
(***************************************************************************)
C1_CycleSafety ==
  /\ ResolvePending => ENABLED Next
  /\ \A t \in Tasks :
       GotResolved(t) =>
         \A n \in 1..Len(ret[t].pairs) :
           ret[t].pairs[n].chain_str
             \in ChainStringsUpTo(Cardinality(DirectoryGroups))

(***************************************************************************)
(* C2  Single-flight: for one group descriptor the membership fetch of     *)
(* the resolver is started at most once, exactly once when a value is in   *)
(* aad_group_members_cache; every caller that was not cut by the cycle     *)
(* check gets the leaf list stored for the descriptor, and a stored list   *)
(* never changes, so all callers get the same leaves.                      *)
(***************************************************************************)
C2_SingleFlightState ==
  /\ \A g \in GroupDescriptors : fetches[g] <= 1
  /\ \A g \in DOMAIN aad_group_members_cache : fetches[g] = 1
  /\ \A t \in Tasks :
       (GotResolved(t) /\ CalledGroup(t) \notin Range(CalledChain(t))) =>
         /\ CalledGroup(t) \in DOMAIN aad_group_members_cache
         /\ Leaves(ret[t].pairs) = aad_group_members_cache[CalledGroup(t)]

C2_SingleFlight ==
  /\ []C2_SingleFlightState
  /\ [][\A g \in DOMAIN aad_group_members_cache :
          /\ g \in DOMAIN aad_group_members_cache'
          /\ aad_group_members_cache'[g] = aad_group_members_cache[g]]_vars

TotalFetches == fetches["aadgp.A"] + fetches["aadgp.B"] + fetches["aadgp.G2"]
                + fetches["vssgp.G1"] + fetches["vssgp.G3"]

\* a caller that missed the cache while another task was fetching the same group
\* has got its result
C2_Witness ==
  \E t \in ProjectIds :
    /\ At(t, PPP, "resolved")
    /\ ret[t].pairs # <<>>
    /\ fetches[CalledGroup(t)] = 1
    /\ cache_stats.aad_group_misses > TotalFetches

(***************************************************************************)
(* C3  Chain fidelity for nesting: when group g has member group b and b   *)
(* has member user u, resolving g from the top level returns a pair for u  *)
(* whose chain string is the display names of g and b joined by " > ".     *)
(***************************************************************************)
C3_ChainFidelity ==
  \A t \in Tasks :
    (At(t, PPP, "resolved") /\ Faultless /\ Acyclic) =>
      \A b \in Range(MembersOf(CalledGroup(t))) \cap GroupDescriptors :
        \A u \in Range(MembersOf(b)) \cap UserDescriptors :
          [member |-> u,
           chain_str |-> Join(<<DisplayNameOf(CalledGroup(t)), DisplayNameOf(b)>>)]
            \in Range(ret[t].pairs)

(***************************************************************************)
(* C4  Full flattening: on an acyclic graph with no failed fetch, the      *)
(* value cached for g and the leaves returned for g contain every user     *)
(* reachable from g through nested groups.                                 *)
(***************************************************************************)
C4_FullFlattening ==
  (Faultless /\ Acyclic) =>
    /\ \A g \in DOMAIN aad_group_members_cache :
         ReachableLeaves(g) \subseteq Range(aad_group_members_cache[g])
    /\ \A t \in Tasks :
         GotResolved(t) => ReachableLeaves(CalledGroup(t)) \subseteq Range(Leaves(ret[t].pairs))

(***************************************************************************)
(* C5  Leaf-only cache: no list stored in aad_group_members_cache holds an *)
(* identity whose subjectKind is "group", and no pair returned by the      *)
(* resolver does.                                                          *)
(***************************************************************************)
C5_LeafOnly ==
  /\ \A g \in DOMAIN aad_group_members_cache :
       \A n \in 1..Len(aad_group_members_cache[g]) :
         SubjectKindOf(aad_group_members_cache[g][n]) # "group"
  /\ \A t \in Tasks :
       GotResolved(t) =>
         \A n \in 1..Len(ret[t].pairs) : SubjectKindOf(ret[t].pairs[n].member) # "group"

\* a group with a nested group among its members has been resolved and cached
C5_Witness ==
  \E g \in DOMAIN aad_group_members_cache :
    /\ aad_group_members_cache[g] # <<>>
    /\ Range(MembersOf(g)) \cap GroupDescriptors # {}
    /\ \E t \in Tasks : GotResolved(t) /\ CalledGroup(t) = g /\ ret[t].pairs # <<>>

(***************************************************************************)
(* C6  Sequential cache correctness: a resolver call for a group whose     *)
(* resolution has completed (its value is cached) makes no network         *)
(* attempt, adds exactly one to aad_group_hits, leaves aad_group_misses    *)
(* and the cache unchanged and returns the cached leaves, which are the    *)
(* leaves the first call returned.                                         *)
(***************************************************************************)
ServedFromCache(t) ==
  /\ Running(t, RESOLVE, "begin")
  /\ Top(t).group_descriptor \notin Range(Top(t).chain)
  /\ Top(t).group_descriptor \in DOMAIN aad_group_members_cache
  /\ stack'[t] # stack[t]

\* the call that completes a resolution returns what it stores
FirstCallReturns(t) ==
  /\ Running(t, RESOLVE, "members")
  /\ Top(t).mi > Len(Top(t).memberships)
  /\ stack'[t] # stack[t]

C6_SequentialHit ==
  [][\A t \in Tasks :
       /\ ServedFromCache(t) =>
            /\ stats'.api_calls = stats.api_calls
            /\ cache_stats'.aad_group_hits = cache_stats.aad_group_hits + 1
            /\ cache_stats'.aad_group_misses = cache_stats.aad_group_misses
            /\ aad_group_members_cache' = aad_group_members_cache
            /\ Depth(t)' = Depth(t) - 1
            /\ Leaves(ret'[t].pairs) = aad_group_members_cache[Top(t).group_descriptor]
       /\ FirstCallReturns(t) =>
            Leaves(ret'[t].pairs) = aad_group_members_cache'[Top(t).group_descriptor]
    ]_vars

\* a top-level caller has been served by the first cache check: there was a hit
\* and no caller ever had to wait for a lock
C6_Witness ==
  \E t \in ProjectIds :
    /\ At(t, PPP, "resolved")
    /\ ret[t].pairs # <<>>
    /\ cache_stats.aad_group_hits = 1
    /\ cache_stats.aad_group_misses = TotalFetches
    /\ stats.aad_groups_resolved = TotalFetches

(***************************************************************************)
(* C7  End-to-end scenario: 2 projects, each with 1 platform group; G1 has *)
(* user U1 and directory group G2, G2 has user U2.  A full audit run emits *)
(* exactly 2 facts: (G1, U1, "direct", "") and (G1, U2, "G2", "G2").       *)
(***************************************************************************)
Fact(row) ==
  <<row.vsts_group_name, row.user_display_name, row.assignment_type,
    row.aad_group_chain>>

C7_EndToEnd ==
  (dir = DirEndToEnd /\ AuditDone) =>
    /\ Len(csv_rows) = 2
    /\ {Fact(csv_rows[n]) : n \in 1..Len(csv_rows)}
         = {<<"G1", "U1", "direct", "">>, <<"G1", "U2", "G2", "G2">>}

(***************************************************************************)
(* C8  Concurrency cap: the number of _make_request calls past admission   *)
(* (sending, awaiting a response or sleeping before a retry) is at most    *)
(* max_concurrent, and a caller that arrives when max_concurrent calls are *)
(* admitted is not admitted until one of them has returned.                *)
(***************************************************************************)
InExecutor(t) ==
  \E n \in 1..Len(stack[t]) :
    /\ stack[t][n].fn = REQUEST
    /\ stack[t][n].pc \in {"attempt", "inflight", "sleep"}
Admitted == Cardinality({t \in Tasks : InExecutor(t)})
AtAdmission(t) == At(t, REQUEST, "begin") \/ At(t, REQUEST, "wait_semaphore")

C8_ConcurrencyCap ==
  /\ [](Admitted <= dir.max_concurrent /\ semaphore = dir.max_concurrent - Admitted)
  /\ [][\A t \in Tasks :
          (AtAdmission(t) /\ Admitted = dir.max_concurrent) => ~InExecutor(t)']_vars

\* every slot is taken and a caller is suspended at the semaphore
C8_Witness ==
  /\ Admitted = dir.max_concurrent
  /\ \E t \in Tasks : At(t, REQUEST, "wait_semaphore")

(***************************************************************************)
(* C9  Server-error retry schedule: in a call that has seen only 5xx       *)
(* responses, timeouts or transport errors, the k-th failure (k = 1, 2, 3) *)
(* is followed by a wait of 2^(k-1) seconds and a retry; a success then    *)
(* returns the body; a 4th failure is not retried, appends exactly one     *)
(* server_error / timeout / client_exception record and returns None.      *)
(***************************************************************************)
OnlyFailures(waits) == \A k \in 1..Len(waits) : waits[k].cause = "failure"
FailureStep(t) == Resp_ServerError(t) \/ Resp_Timeout(t) \/ Resp_ClientException(t)
ExhaustedTypes == {"server_error", "timeout", "client_exception"}

C9_ScheduleState ==
  \A t \in Tasks : \A n \in 1..Len(stack[t]) :
    (stack[t][n].fn = REQUEST /\ OnlyFailures(stack[t][n].waits)) =>
      /\ Len(stack[t][n].waits) <= 3
      /\ \A k \in 1..Len(stack[t][n].waits) : stack[t][n].waits[k].wait = Pow(2, k - 1)
      /\ stack[t][n].attempts =
           Len(stack[t][n].waits) + (IF stack[t][n].pc = "inflight" THEN 1 ELSE 0)

C9_RetrySchedule ==
  /\ []C9_ScheduleState
  /\ [][\A t \in Tasks :
          (Answered(t) /\ OnlyFailures(Top(t).waits)) =>
            /\ (FailureStep(t) /\ Len(Top(t).waits) < 3) =>
                 /\ At(t, REQUEST, "sleep")'
                 /\ Len(Top(t).waits)' = Len(Top(t).waits) + 1
                 /\ errors' = errors
            /\ (FailureStep(t) /\ Len(Top(t).waits) = 3) =>
                 /\ Depth(t)' = Depth(t) - 1
                 /\ ret'[t] = None
                 /\ Len(errors') = Len(errors) + 1
                 /\ errors'[Len(errors')].error_type \in ExhaustedTypes
                 /\ stats'.api_errors = stats.api_errors + 1
            /\ Resp_Success(t) =>
                 /\ Depth(t)' = Depth(t) - 1
                 /\ ret'[t] = Some(Body(Top(t)))
                 /\ errors' = errors
       ]_vars

\* four failures in a row, and nothing else, have ended one call
C9_Witness ==
  /\ dir.faults >= 4
  /\ faultsLeft = dir.faults - 4
  /\ stats.rate_limit_hits = 0
  /\ stats.api_calls = 4
  /\ Len(errors) = 1
  /\ errors[1].error_type \in ExhaustedTypes
  /\ ret[MainTask] = None

(***************************************************************************)
(* C10  Backoff growth.  As claimed: the wait before a retry caused by a   *)
(* 5xx response or timeout is 2^(number of earlier 5xx/timeout failures in *)
(* this call), whatever the number of 429 responses before it.             *)
(***************************************************************************)
FailuresBefore(waits, k) == Cardinality({j \in 1..(k - 1) : waits[j].cause = "failure"})

C10_BackoffCountsOnlyFailures ==
  \A t \in Tasks : \A n \in 1..Len(stack[t]) :
    stack[t][n].fn = REQUEST =>
      \A k \in 1..Len(stack[t][n].waits) :
        stack[t][n].waits[k].cause = "failure" =>
          stack[t][n].waits[k].wait = Pow(2, FailuresBefore(stack[t][n].waits, k))

(***************************************************************************)
(* C10 as amended: the wait before a retry caused by a 5xx response,       *)
(* timeout or transport error is 2^(number of earlier retries in this      *)
(* call), where the retries after 429 responses count as well.             *)
(***************************************************************************)
C10_BackoffCountsAllRetries ==
  \A t \in Tasks : \A n \in 1..Len(stack[t]) :
    stack[t][n].fn = REQUEST =>
      \A k \in 1..Len(stack[t][n].waits) :
        stack[t][n].waits[k].cause = "failure" =>
          /\ stack[t][n].waits[k].wait = Pow(2, k - 1)
          /\ k - 1 = stack[t][n].retry_count
                       - (IF stack[t][n].pc = "sleep" THEN 0 ELSE 1)
                       - (Len(stack[t][n].waits) - k)

\* a failure is being waited out in a call that was rate limited before
C10_Witness ==
  \E t \in Tasks :
    /\ At(t, REQUEST, "sleep")
    /\ Len(Top(t).waits) = 2
    /\ Top(t).waits[1].cause = "429"
    /\ Top(t).waits[2] = [cause |-> "failure", wait |-> 2]

(***************************************************************************)
(* C11  Rate-limit cooperation: a 429 response whose Retry-After header is *)
(* absent or a number of seconds adds one to rate_limit_hits and suspends  *)
(* the call for that number of seconds (60 when the header is absent); the *)
(* next attempt starts only after the wait is over; the wait uses up one   *)
(* unit of the retry budget of 3 that the failure retries use as well: a   *)
(* call makes at most 3 retries of both kinds together, and a failure that *)
(* comes when 429 retries have used the budget up is not retried.          *)
(***************************************************************************)
RequestFrames == {<<t, n>> \in Tasks \X (1..6) : n <= Len(stack[t]) /\ stack[t][n].fn = REQUEST}
RateLimitWaits(f) == {k \in 1..Len(f.waits) : f.waits[k].cause = "429"}

C11_BudgetState ==
  \A tn \in RequestFrames :
    LET f == stack[tn[1]][tn[2]] IN
      /\ Len(f.waits) = f.retry_count + (IF f.pc = "sleep" THEN 1 ELSE 0)
      /\ f.attempts = f.retry_count + (IF f.pc \in {"inflight", "sleep"} THEN 1 ELSE 0)
      /\ f.attempts <= max_retries + 1
      /\ \A k \in RateLimitWaits(f) :
           /\ f.waits[k].header = None => f.waits[k].wait = 60
           /\ f.waits[k].header = Some("5") => f.waits[k].wait = 5
           /\ f.waits[k].header \in {None, Some("5")}

InRequest(t) == Depth(t) > 0 /\ Top(t).fn = REQUEST
\* t's step ends its _make_request call
RequestEnds(t) == InRequest(t) /\ Len(stack'[t]) = Depth(t) - 1
\* t's step goes on with its _make_request call
RequestGoesOn(t) == InRequest(t) /\ Len(stack'[t]) = Depth(t) /\ stack'[t] # stack[t]
\* the step appends exactly one record of t's call and counts it
OneErrorRecorded(t) ==
  /\ stats'.api_errors = stats.api_errors + 1
  /\ Len(errors') = Len(errors) + 1
  /\ SubSeq(errors', 1, Len(errors)) = errors
  /\ errors'[Len(errors')].url = Url(Top(t))
  /\ errors'[Len(errors')].context = Top(t).context

C12_EveryOutcomeRecorded ==
  [][\A t \in Tasks :
       /\ (RequestEnds(t) /\ ret'[t] = None /\ ~Resp_NotFound(t)) => OneErrorRecorded(t)
       /\ RequestGoesOn(t) => (errors' = errors /\ stats'.api_errors = stats.api_errors)
    ]_vars

(***************************************************************************)
(* C13  Bounded, non-throwing executor: whatever the server answers, a     *)
(* _make_request call makes at most 4 attempts; every step of an admitted  *)
(* call uses up a bounded measure, and an admitted call that the event     *)
(* loop can run always has a step, so the call ends; when it ends, its     *)
(* caller goes on at its own next step with None or the JSON body as the   *)
(* value, and the semaphore slot is released.                              *)
(***************************************************************************)
\* what is left of the steps a call may take: attempts, waits and retries
Measure(f) == f.attempts + Len(f.waits) + f.retry_count
MeasureBound == 3 * (max_retries + 1)

C13_BoundedState ==
  \A t \in Tasks :
    /\ \A n \in 1..Len(stack[t]) :
         stack[t][n].fn = REQUEST =>
           (stack[t][n].attempts <= max_retries + 1 /\ Measure(stack[t][n]) <= MeasureBound)
    /\ (InRequest(t) /\ InExecutor(t) /\ (cur = t \/ (cur = NoTask /\ Unstarted = <<>>))) =>
         ENABLED MakeRequest(t)

C13_BoundedExecutor ==
  /\ []C13_BoundedState
  /\ [][\A t \in Tasks :
          /\ (RequestGoesOn(t) /\ InExecutor(t)) => Measure(Top(t))' > Measure(Top(t))
          /\ RequestEnds(t) =>
               /\ stack'[t] = SubSeq(stack[t], 1, Depth(t) - 1)
               /\ ret'[t] \in {None, Some(Body(Top(t)))}
               /\ semaphore' = semaphore + 1
               /\ cur' = t
       ]_vars

\* the first call of the run has ended after 4 attempts that were all answered 429,
\* and its slot is free again
C13_Witness ==
  /\ At(MainTask, "get_all_projects", "response")
  /\ ret[MainTask] = None
  /\ stats.api_calls = 4
  /\ stats.rate_limit_hits = 4
  /\ semaphore = dir.max_concurrent

(***************************************************************************)
(* C14  404 is benign: a 404 response ends the call at once with None: no  *)
(* wait, no retry (the call makes no further attempt), api_errors,         *)
(* rate_limit_hits and the error ledger unchanged; of the counters only    *)
(* api_calls has grown, by the one that the answered attempt added when it *)
(* started.                                                                *)
(***************************************************************************)
C14_NotFoundIsBenign ==
  [][\A t \in Tasks :
       Resp_NotFound(t) =>
         /\ StatusClass(404) = "not_found"
         /\ RequestEnds(t)
         /\ ret'[t] = None
         /\ stats' = stats
         /\ errors' = errors
         /\ requests' = requests
         /\ Top(t).pc = "inflight"
         /\ Len(Top(t).waits) = Top(t).retry_count
    ]_vars

\* the first call of the run was answered 404 at its first attempt: it has ended with
\* None, and api_calls = 1 is the only counter that moved
C14_Witness ==
  /\ At(MainTask, "get_all_projects", "response")
  /\ ret[MainTask] = None
  /\ faultsLeft = dir.faults - 1
  /\ stats = [projects_processed |-> 0, vsts_groups_processed |-> 0,
              aad_groups_resolved |-> 0, total_permissions |-> 0, api_calls |-> 1,
              api_errors |-> 0, rate_limit_hits |-> 0]
  /\ errors = <<>>

(***************************************************************************)
(* C15  Terminal client errors: a 401 or 403 response ends the call with   *)
(* None, without a wait or a retry, and appends exactly one auth_error     *)
(* record carrying that status; a 4xx response other than 401, 403, 404    *)
(* and 429 does the same with one client_error record; api_errors grows by *)
(* one in both cases.  Every status from 400 to 499 falls in one of these  *)
(* classes or is 404 or 429.                                               *)
(***************************************************************************)
ClientStatuses == 400..499
TerminalRecord(t, error_type, statuses) ==
  /\ RequestEnds(t)
  /\ ret'[t] = None
  /\ OneErrorRecorded(t)
  /\ errors'[Len(errors')].error_type = error_type
  /\ errors'[Len(errors')].status \in statuses
  /\ stats'.api_calls = stats.api_calls
  /\ stats'.rate_limit_hits = stats.rate_limit_hits
  /\ requests' = requests

C15_Classes ==
  /\ \A status \in ClientStatuses :
       StatusClass(status) =
         IF status \in {401, 403} THEN "auth"
         ELSE IF status = 404 THEN "not_found"
         ELSE IF status = 429 THEN "rate_limited"
         ELSE "client"
  /\ StatusAuth = {401, 403}
  /\ StatusClient = (Statuses \cap ClientStatuses) \ {401, 403, 404, 429}
  /\ StatusClient # {}

C15_TerminalClientErrors ==
  /\ []C15_Classes
  /\ [][\A t \in Tasks :
          /\ Resp_Auth(t) => TerminalRecord(t, "auth_error", {401, 403})
          /\ Resp_ClientError(t) =>
               TerminalRecord(t, "client_error", ClientStatuses \ {401, 403, 404, 429})
       ]_vars

\* the first call of the run was answered 403 at its first attempt: it has ended with
\* None after that one attempt, and the ledger holds its auth_error record
C15_Witness ==
  /\ At(MainTask, "get_all_projects", "response")
  /\ ret[MainTask] = None
  /\ stats.api_calls = 1
  /\ stats.api_errors = 1
  /\ errors = <<[error_type |-> "auth_error", url |-> <<"projects", "">>,
                 context |-> "get_all_projects", status |-> 403]>>

(***************************************************************************)
(* C16  Total-call accounting: stats["api_calls"] always equals the number *)
(* of HTTP attempts started so far over all _make_request calls, retries   *)
(* included: the server has received exactly that many requests, and       *)
(* api_calls moves exactly in the steps where a call starts an attempt, by *)
(* one, whatever the outcome of the attempt is going to be.                *)
(***************************************************************************)
RECURSIVE SumAttempts(_)
SumAttempts(urls) ==
  IF urls = {} THEN 0
  ELSE LET url == CHOOSE u \in urls : TRUE
       IN  requests[url].attempts + SumAttempts(urls \ {url})
TotalAttempts == SumAttempts(DOMAIN requests)
\* t's step starts an attempt of its call
AttemptStarts(t) ==
  /\ InRequest(t)
  /\ Len(stack'[t]) = Depth(t)
  /\ Top(t).attempts' = Top(t).attempts + 1

C16_TotalCallAccounting ==
  /\ [](stats.api_calls = TotalAttempts)
  /\ [][/\ stats'.api_calls \in {stats.api_calls, stats.api_calls + 1}
        /\ stats'.api_calls = stats.api_calls + 1 <=> \E t \in Tasks : AttemptStarts(t)
       ]_vars

\* several calls have been made and one of them was retried: the count includes the
\* retries
C16_Witness ==
  /\ Cardinality(DOMAIN requests) >= 3
  /\ \E url \in DOMAIN requests : requests[url].attempts >= requests[url].calls + 2
  /\ stats.api_calls >= 5

(***************************************************************************)
(* C17  At-most-once population of the resolved-member cache: under every  *)
(* interleaving, a key of aad_group_members_cache is written only when it  *)
(* is absent, so at most once; the writing call is inside the async with   *)
(* block of the key's lock, which it alone holds; an entry, once stored,   *)
(* never changes and is never removed.                                     *)
(***************************************************************************)
\* the positions of resolve_aad_group_members that are inside async with lock
LockRegion == {"locked", "response", "members", "identity", "nested"}
\* the calls that are inside the async with block of g's lock
Holders(g) ==
  {tn \in Tasks \X (1..6) :
     /\ tn[2] <= Len(stack[tn[1]])
     /\ stack[tn[1]][tn[2]].fn = RESOLVE
     /\ stack[tn[1]][tn[2]].group_descriptor = g
     /\ stack[tn[1]][tn[2]].pc \in LockRegion}
\* t's step stores an entry of the cache
WritesCache(t) == Resolve_NoMembers(t) \/ Resolve_Finish(t)

C17_AtMostOncePopulation ==
  /\ [](\A g \in GroupDescriptors : Cardinality(Holders(g)) <= 1)
  /\ [][/\ \A g \in DOMAIN aad_group_members_cache :
             /\ g \in DOMAIN aad_group_members_cache'
             /\ aad_group_members_cache'[g] = aad_group_members_cache[g]
        /\ \A t \in Tasks :
             WritesCache(t) =>
               /\ Top(t).group_descriptor \notin DOMAIN aad_group_members_cache
               /\ aad_group_locks[Top(t).group_descriptor]
               /\ Holders(Top(t).group_descriptor) = {<<t, Depth(t)>>}
        /\ aad_group_members_cache' # aad_group_members_cache =>
             \E t \in Tasks : WritesCache(t)
       ]_vars

\* an entry has just been stored while another task was suspended at the key's lock
C17_Witness ==
  \E t \in Tasks :
    /\ At(t, RESOLVE, "wait_lock")
    /\ Top(t).group_descriptor \in DOMAIN aad_group_members_cache
    /\ aad_group_members_cache[Top(t).group_descriptor] # <<>>
    /\ ~aad_group_locks[Top(t).group_descriptor]

(***************************************************************************)
(* C18  Bounded redundancy of the simple caches.  As claimed: when tasks   *)
(* request concurrently a key that is not yet in identity_cache,           *)
(* vsts_group_membership_cache or project_groups_cache, at most two        *)
(* fetches are issued for the key: in a run where every request succeeds,  *)
(* the server sees at most two calls for the identity of a descriptor, and *)
(* at no time more than two fetches are under way for a key of the other   *)
(* two caches.                                                             *)
(***************************************************************************)
\* the calls the server has seen for the identity of descriptor d
IdentityFetches(d) ==
  IF <<IdentityEndpoint(d), d>> \in DOMAIN requests
  THEN requests[<<IdentityEndpoint(d), d>>].calls ELSE 0
\* the tasks whose fetcher fn awaits the request it made for a key
Fetching(fn) ==
  {tn \in Tasks \X (1..5) :
     /\ tn[2] < Len(stack[tn[1]])
     /\ stack[tn[1]][tn[2]].fn = fn
     /\ stack[tn[1]][tn[2]].pc = "response"
     /\ stack[tn[1]][tn[2] + 1].fn = REQUEST}
FetchingMembership(key) ==
  {tn \in Fetching("get_group_members") : MembershipKey(stack[tn[1]][tn[2]]) = key}
FetchingGroups(project_id) ==
  {tn \in Fetching("get_project_groups") : stack[tn[1]][tn[2]].project_id = project_id}

C18_BoundedRedundancy ==
  /\ Faultless => \A d \in Descriptors : IdentityFetches(d) <= 2
  /\ \A p \in ProjectIds : Cardinality(FetchingGroups(p)) <= 2
  /\ \A p \in ProjectIds : \A g \in GroupDescriptors :
       Cardinality(FetchingMembership(<<p, g>>)) <= 2

(***************************************************************************)
(* C19  No eviction: the five caches (projects, project groups, group      *)
(* memberships, identities, resolved directory groups) are empty when the  *)
(* auditor is constructed, and no step of a run removes a key from any of  *)
(* them: the key set of each cache only grows.                             *)
(***************************************************************************)
Caches ==
  <<project_cache, project_groups_cache, vsts_group_membership_cache, identity_cache,
    aad_group_members_cache>>

C19_NoEviction ==
  /\ \A n \in 1..5 : DOMAIN Caches[n] = {}
  /\ [][\A n \in 1..5 : DOMAIN Caches[n] \subseteq DOMAIN Caches[n]']_vars

\* late in a run: each of the five caches holds an entry, two of them several
C19_Witness ==
  /\ \A n \in 1..5 : DOMAIN Caches[n] # {}
  /\ Cardinality(DOMAIN identity_cache) >= 3
  /\ Cardinality(DOMAIN vsts_group_membership_cache) >= 2

(***************************************************************************)
(* C20  A cache hit reports the calling path: a call                       *)
(* resolve_aad_group_members(g, name, chain) that is served from the       *)
(* cache, at the first check or at the re-check under the lock, returns    *)
(* one pair per cached member of g, in the cached order, and every pair    *)
(* carries the names of chain followed by name, joined by " > ",           *)
(* whatever path the call that populated the entry had.                    *)
(***************************************************************************)
CacheHit(t) == Resolve_Hit(t) \/ Resolve_RecheckHit(t)
\* the names of chain, then name, with " > " between them
PathString(chain, name) ==
  CASE Len(chain) = 0 -> name
    [] Len(chain) = 1 -> chain[1] \o " > " \o name
    [] Len(chain) = 2 -> chain[1] \o " > " \o chain[2] \o " > " \o name
    [] OTHER -> "longer than the directories of the model allow"

C20_HitReportsCallingPath ==
  [][\A t \in Tasks :
       CacheHit(t) =>
         /\ Depth(t)' = Depth(t) - 1
         /\ ~ret'[t].none
         /\ Leaves(ret'[t].pairs) = aad_group_members_cache[Top(t).group_descriptor]
         /\ \A n \in 1..Len(ret'[t].pairs) :
              ret'[t].pairs[n].chain_str = PathString(Top(t).chain, Top(t).group_name)
    ]_vars

\* B was populated by a call from the top level; the later call for B made while
\* resolving A is the one cache hit of the run and returns U2 under "A > B"
C20_Witness ==
  /\ dir = DirDiamond
  /\ cache_stats.aad_group_hits = 1
  /\ fetches["aadgp.B"] = 1
  /\ At("P1", RESOLVE, "nested")
  /\ Top("P1").group_descriptor = "aadgp.A"
  /\ ret["P1"] = Pairs(<<[member |-> "aad.U2", chain_str |-> "A > B"]>>)

\* the groups whose resolution encloses task t's top call: the lower
\* resolve_aad_group_members frames of its stack
Ancestors(t) ==
  {stack[t][n].group_descriptor :
     n \in {k \in 1..(Depth(t) - 1) : stack[t][k].fn = RESOLVE}}
\* task t has just entered the resolver for a group that is on its resolution path
ReentersAncestor(t) ==
  Running(t, RESOLVE, "begin") /\ Top(t).group_descriptor \in Ancestors(t)

(***************************************************************************)
(* C21  Cycle check truncates the branch: a call of                        *)
(* resolve_aad_group_members for a group that is an ancestor of the call   *)
(* in the recursion returns the empty list in its first step, taking no    *)
(* lock, making no request and writing no cache, and the enclosing         *)
(* resolution is back in its member loop.                                  *)
(***************************************************************************)
C21_CycleTruncates ==
  [][\A t \in Tasks :
       (ReentersAncestor(t) /\ stack'[t] # stack[t]) =>
         /\ stack' = Pop(t)
         /\ ret'[t] = Pairs(<<>>)
         /\ At(t, RESOLVE, "nested")'
         /\ UNCHANGED <<aad_group_locks, aad_group_members_cache, requests, fetches>>]_vars
\* a group is entered again below itself
C21_Reentry == \E t \in Tasks : ReentersAncestor(t)

\* the rows task t's step has appended to the output
NewRows == SubSeq(csv_rows', Len(csv_rows) + 1, Len(csv_rows'))
\* the pairs among the resolver's answer whose member has a usable name
NamedPairs(pairs) ==
  SelectSeq(pairs, LAMBDA pair : PrincipalNameOf(pair.member) # ""
                                 \/ DisplayNameOf(pair.member) # "")
\* the member of the platform group that task t's project loop is at
CurrentGroup(t) == Top(t).groups[Top(t).gi]
CurrentMember(t) == Top(t).memberships[Top(t).mi]

(***************************************************************************)
(* C22  Aggregation rule: for a direct member of a platform group whose    *)
(* identity was fetched, process_project_permissions appends exactly one   *)
(* fact with assignment_type "direct" and an empty chain when the member   *)
(* is not a group; when it is a directory group it appends one fact per    *)
(* pair the resolver returned, in order, with assignment_type the          *)
(* directory group's display name and the chain the returned chain string  *)
(* (members without a usable name give no fact).  A step in which writing  *)
(* raises an exception is recorded in the ledger and is not meant.         *)
(***************************************************************************)
C22_AggregationRule ==
  [][\A t \in Tasks :
       /\ (Running(t, PPP, "identity") /\ ~ret[t].none /\ stack'[t] # stack[t]
            /\ SubjectKindOf(CurrentMember(t)) # "group" /\ errors' = errors) =>
             /\ SubSeq(csv_rows', 1, Len(csv_rows)) = csv_rows
             /\ IF PrincipalNameOf(CurrentMember(t)) = ""
                   /\ DisplayNameOf(CurrentMember(t)) = ""
                THEN NewRows = <<>>
                ELSE /\ Len(NewRows) = 1
                     /\ NewRows[1].project_name = Top(t).project
                     /\ NewRows[1].vsts_group_id = CurrentGroup(t)
                     /\ NewRows[1].user_id = CurrentMember(t)
                     /\ NewRows[1].assignment_type = "direct"
                     /\ NewRows[1].aad_group_chain = ""
       /\ (Running(t, PPP, "resolved") /\ stack'[t] # stack[t] /\ errors' = errors) =>
             LET pairs == NamedPairs(ret[t].pairs)
             IN  /\ SubSeq(csv_rows', 1, Len(csv_rows)) = csv_rows
                 /\ Len(NewRows) = Len(pairs)
                 /\ \A n \in 1..Len(pairs) :
                      /\ NewRows[n].project_name = Top(t).project
                      /\ NewRows[n].vsts_group_id = CurrentGroup(t)
                      /\ NewRows[n].user_id = pairs[n].member
                      /\ NewRows[n].assignment_type = DisplayNameOf(CurrentMember(t))
                      /\ NewRows[n].aad_group_chain = pairs[n].chain_str]_vars
\* a project has written facts for direct members and two facts for the members of
\* one directory group, whose third member has no name
C22_Witness ==
  \E t \in Tasks :
    /\ At(t, PPP, "members")
    /\ Len(csv_rows) >= 3
    /\ csv_rows[1].assignment_type = "direct" /\ csv_rows[1].aad_group_chain = ""
    /\ LET n == Len(csv_rows)
       IN  /\ csv_rows[n].assignment_type = "A" /\ csv_rows[n].aad_group_chain = "A"
           /\ csv_rows[n - 1].assignment_type = "A"
           /\ csv_rows[n].user_id = "aad.U1" /\ csv_rows[n - 1].user_id = "aad.PN"

\* attribute values the classification is checked on, in several spellings
SubjectKinds == {"group", "Group", "GROUP", "user", "User", "", "device"}
Domains == {"", "tenant", "build", "Build", "mybuildfarm", "corp.ServiceAccount", "rebuilt"}
PrincipalNames == {"", "U1", "app@myorg", "App@MyOrg", "agent7", "pn@corp", "snapp@x"}
\* what the rule says of them, written out value by value
GroupKinds == {"group", "Group", "GROUP"}
UserKinds == {"user", "User"}
AppPrincipals == {"app@myorg", "App@MyOrg", "snapp@x"}
BuildDomains == {"build", "Build"}
ServiceDomains == {"build", "Build", "mybuildfarm", "corp.ServiceAccount"}
ExpectedType(subjectKind, domain, principalName) ==
  CASE subjectKind \in GroupKinds -> "aad_group"
    [] subjectKind \in UserKinds /\ (principalName \in AppPrincipals
                                      \/ domain \in BuildDomains) -> "service_principal"
    [] subjectKind \in UserKinds /\ principalName \notin AppPrincipals
                                 /\ domain \notin BuildDomains -> "user"
    [] subjectKind \notin GroupKinds \cup UserKinds /\ domain \in ServiceDomains
         -> "service_principal"
    [] OTHER -> "unknown"

(***************************************************************************)
(* C23  Classification: _determine_member_type gives aad_group for         *)
(* subjectKind "group"; service_principal for subjectKind "user" with a    *)
(* principalName containing "app@" or the domain "build"; user for any     *)
(* other subjectKind "user"; service_principal for another subjectKind     *)
(* with a domain containing "serviceaccount" or "build"; unknown           *)
(* otherwise; upper and lower case are not told apart.  Every fact written *)
(* carries the class of its identity.                                      *)
(***************************************************************************)
C23_Classification ==
  /\ \A subjectKind \in SubjectKinds, domain \in Domains,
        principalName \in PrincipalNames :
        DetermineMemberType([subjectKind |-> subjectKind, domain |-> domain,
                             principalName |-> principalName])
          = ExpectedType(subjectKind, domain, principalName)
  /\ [][\A n \in 1..Len(NewRows) :
          LET member == MemberDetails(NewRows[n].user_id)
          IN  NewRows[n].user_type
                = ExpectedType(member.subjectKind, member.domain,
                               member.principalName)]_vars
\* facts were written for a service principal named App@MyOrg, a build identity, a
\* service account, an identity of unknown kind and a plain user
C23_Witness ==
  /\ {csv_rows[n].user_type : n \in 1..Len(csv_rows)}
       = {"service_principal", "unknown", "user"}
  /\ \E n \in 1..Len(csv_rows) :
       csv_rows[n].user_id = "aad.SP" /\ csv_rows[n].user_type = "service_principal"
  /\ \E n \in 1..Len(csv_rows) :
       csv_rows[n].user_id = "svc.ACC" /\ csv_rows[n].user_type = "service_principal"

\* the identity has neither a principal name nor a display name
Nameless(d) == PrincipalNameOf(d) = "" /\ DisplayNameOf(d) = ""
\* how many of the pairs have a member with a name
NamedCount(pairs) == Cardinality({n \in 1..Len(pairs) : ~Nameless(pairs[n].member)})

ProjectCompleted(p) == p \in DOMAIN project_cache /\ stack[p] = <<>>

(***************************************************************************)
(* C25  Flush boundary: with several projects writing into the one output  *)
(* stream, every fact that has been flushed to the sink belongs to a       *)
(* project whose own processing has completed.                             *)
(***************************************************************************)
C25_FlushBoundary ==
  \A n \in 1..flushed : ProjectCompleted(csv_rows[n].project_name)

\* the error types of the handlers of process_project_permissions
ProcessingErrors ==
  {"membership_processing_error", "group_processing_error", "project_processing_error"}
\* the frame of process_project_permissions in the task of project p
ProjectFrameOf(p) == stack[p][1]
\* how many records of the ledger have the given type
ErrorCount(error_type) ==
  Cardinality({n \in 1..Len(errors) : errors[n].error_type = error_type})

(***************************************************************************)
(* C26  Error isolation: an exception raised while a membership, a group   *)
(* or a project is processed adds one record of the matching type to the   *)
(* error ledger; the task then stands at the next membership, at the next  *)
(* group, or has ended, and no other project's task is touched.  When the  *)
(* run is over, no request failed and the projects have platform groups,   *)
(* every project was either counted as processed or has a                  *)
(* project_processing_error.                                               *)
(***************************************************************************)
C26_ErrorIsolation ==
  [][/\ raisesLeft' # raisesLeft =>
          \E t \in ProjectIds :
            LET e == errors'[Len(errors')]
                before == ProjectFrameOf(t)
            IN  /\ cur = t
                /\ Len(errors') = Len(errors) + 1
                /\ SubSeq(errors', 1, Len(errors)) = errors
                /\ e.error_type \in ProcessingErrors
                /\ \A p \in Tasks \ {t} : stack'[p] = stack[p]
                /\ e.error_type = "membership_processing_error" =>
                     /\ cur' = t
                     /\ stack'[t] = <<[before EXCEPT !.pc = "members", !.mi = @ + 1]>>
                     /\ before.mi <= Len(before.memberships)
                /\ e.error_type = "group_processing_error" =>
                     /\ cur' = t
                     /\ stack'[t] = <<[before EXCEPT !.pc = "group_loop", !.gi = @ + 1]>>
                     /\ before.gi <= Len(before.groups)
                /\ e.error_type = "project_processing_error" =>
                     /\ stack'[t] = <<>>
                     /\ e.context = t
                     /\ stats' = stats
     /\ (AuditDone /\ faultsLeft = dir.faults /\ dir.groups # <<>>)' =>
          (stats.projects_processed + ErrorCount("project_processing_error")
             = Len(dir.projects))']_vars
\* the run is over: writing P1's fact for U1 in G1 failed, P1 went on to write the
\* fact for U2 and those of its next group, and both projects were counted
C26_Witness ==
  /\ AuditDone
  /\ Len(errors) = 1
  /\ errors[1].error_type = "membership_processing_error"
  /\ errors[1].context = "P1:G1"
  /\ {csv_rows[n].user_id :
        n \in {k \in 1..Len(csv_rows) : /\ csv_rows[k].project_name = "P1"
                                         /\ csv_rows[k].vsts_group_id = "vssgp.G1"}}
       = {"aad.U2"}
  /\ Cardinality({n \in 1..Len(csv_rows) : csv_rows[n].project_name = "P1"}) = 3
  /\ Cardinality({n \in 1..Len(csv_rows) : csv_rows[n].project_name = "P2"}) = 4
  /\ stats.projects_processed = 2

\* get_all_projects returned a non-empty list
ProjectsEnumerated == DOMAIN project_cache # {}

(***************************************************************************)
(* C27  The run always completes: once project enumeration has succeeded,  *)
(* whatever the membership graph and the responses, the run is never in a  *)
(* state from which no task can take a step unless run_audit and all the  *)
(* project tasks have returned.                                            *)
(***************************************************************************)
C27_RunCompletes == ProjectsEnumerated => (AuditDone \/ ENABLED Next)

\* run_audit has the answer of get_all_projects and it is the empty list (which is
\* also what a failed enumeration gives)
NothingEnumerated ==
  Running(MainTask, "run_audit", "projects") /\ ret[MainTask].val = <<>>
\* nothing of the fan-out has happened
NoFanOut ==
  /\ \A p \in ProjectIds : stack[p] = <<>>
  /\ DOMAIN requests \subseteq {<<"projects", "">>}
  /\ DOMAIN project_groups_cache = {} /\ DOMAIN vsts_group_membership_cache = {}
  /\ DOMAIN identity_cache = {} /\ DOMAIN aad_group_members_cache = {}
  /\ csv_rows = <<>> /\ flushed = 0
  /\ stats.projects_processed = 0 /\ stats.vsts_groups_processed = 0

(***************************************************************************)
(* C28  Fatal top-level failure: when project enumeration gives Absent or  *)
(* the empty list, run_audit returns in its next step, and as long as no   *)
(* project has been enumerated no project task exists, no group,           *)
(* membership or identity request has been issued and no fact is written.  *)
(***************************************************************************)
C28_NoFanOutWithoutProjects ==
  [][/\ (NothingEnumerated /\ stack' # stack) => (AuditDone /\ NoFanOut)'
     /\ (~ProjectsEnumerated)' => NoFanOut']_vars
\* the organization has no project: the run is over after the one request
C28_Witness ==
  /\ dir.projects = <<>>
  /\ AuditDone
  /\ <<"projects", "">> \in DOMAIN requests
  /\ requests[<<"projects", "">>].calls = 1
  /\ stats.api_errors = 0
  /\ NoFanOut

\* the members of the group of frame f whose turn is still to come
RemainingMembers(f) == SubSeq(f.memberships, f.mi + 1, Len(f.memberships))

(***************************************************************************)
(* C29  Missing identity is skipped, not fatal: in                         *)
(* resolve_aad_group_members an identity fetch that returns Absent stores  *)
(* nothing in identity_cache; the resolver then adds nothing to its        *)
(* result, keeps the group's lock and stands at the next member with all   *)
(* the remaining members still to be processed; the group's result is      *)
(* cached when the loop ends.                                              *)
(***************************************************************************)
C29_MissingIdentitySkipped ==
  [][\A t \in Tasks :
       /\ (Running(t, "get_identity_details", "response") /\ ret[t].none
            /\ stack'[t] # stack[t]) =>
             /\ identity_cache' = identity_cache
             /\ ret'[t].none
       /\ (Running(t, RESOLVE, "identity") /\ ret[t].none /\ stack'[t] # stack[t]) =>
             /\ Depth(t)' = Depth(t)
             /\ At(t, RESOLVE, "members")'
             /\ Top(t)'.all_resolved_members = Top(t).all_resolved_members
             /\ Top(t)'.mi = Top(t).mi + 1
             /\ RemainingMembers(Top(t)) =
                  SubSeq(Top(t)'.memberships, Top(t)'.mi, Len(Top(t)'.memberships))
             /\ UNCHANGED <<identity_cache, aad_group_locks, aad_group_members_cache>>
       /\ (Running(t, RESOLVE, "members") /\ Top(t).mi > Len(Top(t).memberships)
            /\ stack'[t] # stack[t]) =>
             Top(t).group_descriptor \in DOMAIN aad_group_members_cache']_vars
\* the identity of U1, first member of A, could not be fetched: A's next member B was
\* resolved all the same, and A's result is cached without U1
C29_Witness ==
  /\ dir = DirNested
  /\ AuditDone
  /\ "aad.U1" \notin DOMAIN identity_cache
  /\ <<"user_identity", "aad.U1">> \in DOMAIN requests
  /\ "aadgp.B" \in DOMAIN aad_group_members_cache
  /\ aad_group_members_cache["aadgp.B"] = <<"aad.U2">>
  /\ "aadgp.A" \in DOMAIN aad_group_members_cache
  /\ "aad.U1" \notin Range(aad_group_members_cache["aadgp.A"])

\* the members of g in the directory that are not groups, in the directory's order
DirectLeaves(g) == SelectSeq(MembersOf(g), LAMBDA d : SubjectKindOf(d) # "group")

(***************************************************************************)
(* C30  Leaf set is path-independent: as long as no fetch has failed, the  *)
(* value stored in aad_group_members_cache for a descriptor g is           *)
(* determined by the membership graph and g alone, whichever caller,       *)
(* calling chain or interleaving stored it.                                *)
(***************************************************************************)
C30_LeafSetPathIndependent ==
  Faultless =>
    \A g \in DOMAIN aad_group_members_cache :
      aad_group_members_cache[g] = DirectLeaves(g)
\* B was stored by a call from the top level, which reported U2 with the chain "B";
\* the call for B made below A is served the same members with the chain "A > B"
C30_Witness ==
  \E t \in Tasks :
    /\ dir = DirDiamond
    /\ At(t, RESOLVE, "nested")
    /\ CalledGroup(t) = "aadgp.B"
    /\ ret[t] = Pairs(<<[member |-> "aad.U2", chain_str |-> "A > B"]>>)
    /\ aad_group_members_cache["aadgp.B"] = <<"aad.U2">>
    /\ \E n \in 1..Len(csv_rows) :
         csv_rows[n].user_id = "aad.U2" /\ csv_rows[n].aad_group_chain = "B"

\* task t is at the first cache check of a resolver call that passed the cycle check
AtFirstCheck(t) ==
  Running(t, RESOLVE, "begin") /\ Top(t).group_descriptor \notin Range(Top(t).chain)

(***************************************************************************)
(* C31  Lock discipline of the single-flight coordinator: a hit on the     *)
(* first cache check returns without creating or acquiring a lock; on a    *)
(* miss the caller gets the lock kept for the descriptor, which is created *)
(* free on first use, left as it is when it exists, and never removed; a   *)
(* lock is held exactly when one call is inside its async with block, and  *)
(* never more than one call is.                                            *)
(***************************************************************************)
C31_LockDiscipline ==
  /\ [](\A g \in GroupDescriptors :
          /\ Cardinality(Holders(g)) <= 1
          /\ g \in DOMAIN aad_group_locks => (aad_group_locks[g] <=> Holders(g) # {})
          /\ g \notin DOMAIN aad_group_locks => Holders(g) = {})
  /\ [][/\ DOMAIN aad_group_locks \subseteq DOMAIN aad_group_locks'
        /\ \A t \in Tasks :
             (AtFirstCheck(t) /\ stack'[t] # stack[t]) =>
               LET g == Top(t).group_descriptor
               IN  IF g \in DOMAIN aad_group_members_cache
                   THEN /\ aad_group_locks' = aad_group_locks
                        /\ stack'[t] = SubSeq(stack[t], 1, Depth(t) - 1)
                   ELSE /\ g \in DOMAIN aad_group_locks'
                        /\ g \in DOMAIN aad_group_locks =>
                             aad_group_locks' = aad_group_locks
                        /\ g \notin DOMAIN aad_group_locks =>
                             /\ ~aad_group_locks'[g]
                             /\ \A h \in DOMAIN aad_group_locks :
                                  aad_group_locks'[h] = aad_group_locks[h]]_vars
\* one task is inside the block of A's lock and another task, which missed on A too,
\* is suspended at the same lock; B is stored and its lock is still there
C31_Witness ==
  \E t \in Tasks, u \in Tasks :
    /\ t # u
    /\ At(t, RESOLVE, "wait_lock")
    /\ Top(t).group_descriptor = "aadgp.A"
    /\ aad_group_locks["aadgp.A"]
    /\ \E n \in 1..Len(stack[u]) : Holders("aadgp.A") = {<<u, n>>}
    /\ "aadgp.B" \in DOMAIN aad_group_members_cache
    /\ DOMAIN aad_group_locks = {"aadgp.A", "aadgp.B"}

\* task t has a resolver call that has not returned
InResolver(t) == \E n \in 1..Len(stack[t]) : stack[t][n].fn = RESOLVE
\* the groups whose lock task t holds: those of its calls inside an async with block
LocksHeld(t) ==
  {stack[t][n].group_descriptor :
     n \in {k \in 1..Len(stack[t]) :
              stack[t][k].fn = RESOLVE /\ stack[t][k].pc \in LockRegion}}
\* the projects of the directories that have platform groups: only their tasks
\* call the resolver
ResolvingProjects ==
  UNION {Range(Directories[n].projects) :
           n \in {k \in DOMAIN Directories : Directories[k].groups # <<>>}}
\* task t stands before a lock (about to take it, or suspended at it)
AtLock(t) == At(t, RESOLVE, "lock") \/ At(t, RESOLVE, "wait_lock")

(***************************************************************************)
(* C32  Deadlock freedom on acyclic graphs: when the membership graph of   *)
(* the directory groups has no cycle, a task that stands before the lock   *)
(* of a group holds only locks of groups from which that group is          *)
(* reachable, the group itself not among them; a taken lock at which a     *)
(* task is suspended is held by another task that is inside that group's   *)
(* block; and every task that is inside resolve_aad_group_members gets     *)
(* out of it.                                                              *)
(***************************************************************************)
C32_DeadlockFreedom ==
  /\ [](Acyclic =>
          \A t \in Tasks :
            /\ AtLock(t) =>
                 /\ Top(t).group_descriptor \notin LocksHeld(t)
                 /\ \A g \in LocksHeld(t) : Top(t).group_descriptor \in Reachable(g)
            /\ (At(t, RESOLVE, "wait_lock") /\ aad_group_locks[Top(t).group_descriptor]) =>
                 \E u \in Tasks \ {t} : Top(t).group_descriptor \in LocksHeld(u))
  /\ \A t \in ResolvingProjects : (Acyclic /\ InResolver(t)) ~> ~InResolver(t)
\* on an acyclic graph a task that holds the lock of A is suspended at the lock of B,
\* which another task holds
C32_Witness ==
  \E t \in Tasks, u \in Tasks :
    /\ t # u
    /\ Acyclic
    /\ At(t, RESOLVE, "wait_lock")
    /\ LocksHeld(t) # {}
    /\ Top(t).group_descriptor \in LocksHeld(u)

\* the display names of the directory groups that are members of platform group g
TopLevelNames(g) ==
  {DisplayNameOf(m) : m \in {d \in Range(MembersOf(g)) : SubjectKindOf(d) = "group"}}

FetchFailed(t) ==
  Running(t, RESOLVE, "response") /\ ret[t].none /\ stack'[t] # stack[t]
\* a call for a group whose stored result is empty leaves one of the cache checks
EmptyHit(t) ==
  /\ Running(t, RESOLVE, "begin") \/ Running(t, RESOLVE, "locked")
  /\ Top(t).group_descriptor \notin Range(Top(t).chain)
  /\ Top(t).group_descriptor \in DOMAIN aad_group_members_cache
  /\ aad_group_members_cache[Top(t).group_descriptor] = <<>>
  /\ stack'[t] # stack[t]

(***************************************************************************)
(* C34  A failed group fetch is cached as empty: when the membership fetch *)
(* of resolve_aad_group_members comes back absent, the empty list is       *)
(* stored for the descriptor, the call returns the empty list and          *)
(* aad_groups_resolved stays as it is; a stored result is never replaced   *)
(* and its group is never fetched again; and a later call for a group      *)
(* whose stored result is empty returns the empty list from the cache      *)
(* without a request.                                                      *)
(***************************************************************************)
C34_FailedFetchCached ==
  [][/\ \A t \in Tasks :
          /\ FetchFailed(t) =>
               /\ Top(t).group_descriptor \in DOMAIN aad_group_members_cache'
               /\ aad_group_members_cache'[Top(t).group_descriptor] = <<>>
               /\ stats'.aad_groups_resolved = stats.aad_groups_resolved
               /\ stack' = Pop(t)
               /\ ret'[t] = Pairs(<<>>)
          /\ EmptyHit(t) =>
               /\ stack' = Pop(t)
               /\ ret'[t] = Pairs(<<>>)
               /\ stats' = stats
               /\ fetches' = fetches
     /\ \A g \in DOMAIN aad_group_members_cache :
          /\ g \in DOMAIN aad_group_members_cache'
          /\ aad_group_members_cache'[g] = aad_group_members_cache[g]
          /\ fetches'[g] = fetches[g]
    ]_vars
\* the fetch of a group that has members failed, nothing was ever resolved, and a
\* later call for that group has been answered from the cache with the empty list
C34_Witness ==
  \E t \in ProjectIds :
    /\ At(t, PPP, "resolved")
    /\ ret[t] = Pairs(<<>>)
    /\ MembersOf(CalledGroup(t)) # <<>>
    /\ CalledGroup(t) \in DOMAIN aad_group_members_cache
    /\ aad_group_members_cache[CalledGroup(t)] = <<>>
    /\ fetches[CalledGroup(t)] = 1
    /\ stats.aad_groups_resolved = 0
    /\ cache_stats.aad_group_hits >= 1

\* the calls counted by the resolver's two counters
HitsAndMisses == cache_stats.aad_group_hits + cache_stats.aad_group_misses

(***************************************************************************)
(* C35  Resolver hit/miss accounting: aad_group_hits + aad_group_misses    *)
(* is the number of resolve_aad_group_members calls that have passed the   *)
(* cycle check, that is, the sum grows by one in the step by which a call  *)
(* leaves the first cache check and in no other step, also for a call that *)
(* had to wait for the group's lock.                                       *)
(***************************************************************************)
C35_HitMissAccounting ==
  [][IF \E t \in Tasks : AtFirstCheck(t) /\ stack'[t] # stack[t]
     THEN HitsAndMisses' = HitsAndMisses + 1
     ELSE HitsAndMisses' = HitsAndMisses]_vars

\* the tasks that hold a slot of the executor's semaphore
SlotHolders == {t \in Tasks : InExecutor(t)}

(***************************************************************************)
(* C36  Executor slots and group locks never interlock: a slot is held     *)
(* only by a task whose running call is _make_request, so a task that      *)
(* stands before or is suspended at a group lock holds no slot; the free   *)
(* slots are max_concurrent less the tasks inside the executor; and when   *)
(* no _make_request call is active every slot is free, whichever way the   *)
(* earlier calls ended.                                                    *)
(***************************************************************************)
C36_NoInterlock ==
  /\ \A t \in SlotHolders : InRequest(t)
  /\ \A t \in Tasks : AtLock(t) => t \notin SlotHolders
  /\ semaphore = dir.max_concurrent - Cardinality(SlotHolders)
  /\ RequestFrames = {} => semaphore = dir.max_concurrent
\* after earlier requests have come and gone, one task is suspended at a group
\* lock while the holder of that lock is inside the executor: only the holder's
\* slot is taken
C36_Witness ==
  \E t \in Tasks, u \in Tasks :
    /\ At(t, RESOLVE, "wait_lock")
    /\ Top(t).group_descriptor \in LocksHeld(u)
    /\ SlotHolders = {u}
    /\ semaphore = dir.max_concurrent - 1
    /\ stats.api_calls > 3

\* the frame of run_audit while it works through the batches
BatchFrame == stack[MainTask][1]
InBatches ==
  /\ Depth(MainTask) = 1
  /\ BatchFrame.fn = "run_audit"
  /\ BatchFrame.pc \in {"gather", "batch_sleep"}
\* the projects whose task exists and has not ended
InProgress == {p \in ProjectIds : stack[p] # <<>>}
\* the projects whose task exists or has fetched its groups
Started == InProgress \cup DOMAIN project_groups_cache
\* the projects of the batches up to the one that begins after index i
UpToBatch(projects, i) == Range(SubSeq(projects, 1, Min(i + batch_size, Len(projects))))

(***************************************************************************)
(* C37  Batch barrier: run_audit works through the enumerated projects in  *)
(* consecutive slices of at most 10; the projects in progress are projects *)
(* of the current slice, at most 10 of them, and no project of a later     *)
(* slice has started; gather returns only when every task of the slice has *)
(* ended; the pause follows only a slice after which projects remain, and  *)
(* after the pause exactly the tasks of the next slice are created; after  *)
(* the last slice run_audit ends without a pause.                          *)
(***************************************************************************)
C37_BatchBarrier ==
  /\ [](/\ Cardinality(InProgress) <= batch_size
        /\ InBatches =>
             /\ BatchFrame.i % batch_size = 0
             /\ BatchFrame.i < Len(BatchFrame.projects)
             /\ BatchFrame.projects = dir.projects
             /\ Len(Batch(BatchFrame.projects, BatchFrame.i)) \in 1..batch_size
             /\ InProgress \subseteq Range(Batch(BatchFrame.projects, BatchFrame.i))
             /\ Started \subseteq UpToBatch(BatchFrame.projects, BatchFrame.i)
             /\ BatchFrame.pc = "batch_sleep" =>
                  /\ InProgress = {}
                  /\ BatchFrame.i + batch_size < Len(BatchFrame.projects))
  /\ [][/\ (InBatches /\ BatchFrame.pc = "gather" /\ stack'[MainTask] # stack[MainTask]) =>
             /\ InProgress = {}
             /\ IF BatchFrame.i + batch_size < Len(BatchFrame.projects)
                THEN stack'[MainTask] = <<[BatchFrame EXCEPT !.pc = "batch_sleep"]>>
                ELSE stack'[MainTask] = <<>>
        /\ (InBatches /\ BatchFrame.pc = "batch_sleep" /\ stack'[MainTask] # stack[MainTask]) =>
             /\ stack'[MainTask] =
                  <<[BatchFrame EXCEPT !.pc = "gather", !.i = @ + batch_size]>>
             /\ \A p \in ProjectIds :
                  stack'[p] = IF p \in Range(Batch(BatchFrame.projects,
                                                    BatchFrame.i + batch_size))
                              THEN <<ProjectFrame(p)>> ELSE <<>>
       ]_vars
\* the second slice is in progress: its one project has a task, and the ten projects
\* of the first slice have all fetched their groups and ended
C37_Witness ==
  /\ InBatches
  /\ BatchFrame.pc = "gather"
  /\ BatchFrame.i = batch_size
  /\ Len(BatchFrame.projects) = batch_size + 1
  /\ InProgress = {BatchFrame.projects[batch_size + 1]}
  /\ DOMAIN project_groups_cache = Range(Batch(BatchFrame.projects, 0))
====
